---- MODULE Spec2Model ----
(***************************************************************************)
(* Model of model-proxy.py: the chat-completion proxy that maps model      *)
(* names, short-circuits known commands, forwards a unary request to a     *)
(* local or a direct backend, synthesises tool calls from text and renders *)
(* the answer as one JSON object or as a sequence of SSE events.           *)
(*                                                                         *)
(* Text is a sequence of tokens.  A token is a word (a run of \w           *)
(* characters, at least two of them), one blank "sp", one newline "nl", or *)
(* a piece of punctuation ("fence" is the markdown code fence).  None stands *)
(* for JSON null / Python None.                                           *)
(***************************************************************************)
EXTENDS Integers, Sequences, FiniteSets, TLC

VARIABLES pc, req, ctx, out, calls, ans, resp, src, content, tool_defs, converted,
          peer, tables

vars == <<pc, req, ctx, out, calls, ans, resp, src, content, tool_defs, converted,
          peer, tables>>

None == <<"None">>

-----------------------------------------------------------------------------
(* Bounds of the model *)

MaxLines == 3

MaxMsgs == 2

MaxHist == 6

MaxContentLen == 205

-----------------------------------------------------------------------------
(* Characters and the str methods the code uses *)

NonWordTokens ==
  {"sp", "nl", "TOOL_CALL:", "tool_call:", "fence", "[", "]", ":", "/x", "{",
   "System:", "system:", "Cron:", "cron:", "@bob", "id:12345", "/skills",
   "llama3.3:latest", "qwen2.5-coder:32b", "phi4:latest", "gpt-5.2",
   "gpt-5.1-codex", "gpt-5", "gpt-5-mini", "gpt-4.1", "deepseek-v3", "gemini-flash",
   "deepseek/deepseek-chat", "google/gemini-2.0-flash-001"}

IsWS(c) == c \in {"sp", "nl"}

IsWord(c) == c \notin NonWordTokens

Min(S) == CHOOSE x \in S : \A y \in S : x <= y

Max(S) == CHOOSE x \in S : \A y \in S : y <= x

\* the first index >= j whose token is not whitespace (Len+1 when none)
SkipWS(t, j) == Min({k \in j..(Len(t) + 1) : k = Len(t) + 1 \/ ~IsWS(t[k])})

\* the first index >= j whose token is not a word character
SkipWord(t, j) == Min({k \in j..(Len(t) + 1) : k = Len(t) + 1 \/ ~IsWord(t[k])})

\* the first index >= j whose token is whitespace: the end of a \S+ run
SkipNonWS(t, j) == Min({k \in j..(Len(t) + 1) : k = Len(t) + 1 \/ IsWS(t[k])})

\* the last index of the line that holds index j: '.' stops at a newline
EndOfLine(t, j) == Min({k \in j..(Len(t) + 1) : k = Len(t) + 1 \/ t[k] = "nl"}) - 1

\* '^' under re.MULTILINE
AtLineStart(t, i) == i = 1 \/ t[i - 1] = "nl"

\* str.strip()
Strip(t) ==
  LET keep == {k \in 1..Len(t) : ~IsWS(t[k])}
  IN  IF keep = {} THEN <<>> ELSE SubSeq(t, Min(keep), Max(keep))

\* str.startswith(prefix)
StartsWith(t, p) == Len(t) >= Len(p) /\ SubSeq(t, 1, Len(p)) = p

\* the 'in' operator: p occurs in t
Contains(t, p) ==
  \E k \in 0..(Len(t) - Len(p)) : SubSeq(t, k + 1, k + Len(p)) = p

\* str.lower(), one token
LowerTok(c) ==
  CASE c = "NEXT" -> "next"
    [] c = "Skills" -> "skills"
    [] c = "Exec" -> "exec"
    [] c = "Tool" -> "tool"
    [] c = "Conversation" -> "conversation"
    [] c = "System:" -> "system:"
    [] c = "Cron:" -> "cron:"
    [] c = "NO_REPLY" -> "no_reply"
    [] c = "TOOL_CALL:" -> "tool_call:"
    [] OTHER -> c

\* str.lower()
Lower(t) == [k \in 1..Len(t) |-> LowerTok(t[k])]

\* the text left when the index set gone is cut out: re.sub(pattern, '', text)
RECURSIVE CutOut(_, _, _)
CutOut(t, gone, k) ==
  IF k > Len(t) THEN <<>>
  ELSE (IF k \in gone THEN <<>> ELSE <<t[k]>>) \o CutOut(t, gone, k + 1)

NoMatch == [ok |-> FALSE, start |-> 0, end |-> 0, name |-> <<>>, args |-> <<>>]

Spans(ms) == UNION {ms[k].start..ms[k].end : k \in 1..Len(ms)}

-----------------------------------------------------------------------------
(* Registered tools *)

Tool(type, name, props) == [type |-> type, name |-> name, props |-> props]

\* known_tools of convert_text_to_tool_calls
KnownTools(defs) ==
  {defs[k].name : k \in {j \in 1..Len(defs) : defs[j].type = "function" /\ defs[j].name # ""}}

\* tool_params[name]: the first property of the last definition of that name
ToolParam(defs, name, default) ==
  LET idx == {j \in 1..Len(defs) : defs[j].type = "function" /\ defs[j].name = name}
  IN  IF idx = {} THEN default
      ELSE IF defs[Max(idx)].props = <<>> THEN "input" ELSE defs[Max(idx)].props[1]

ToolCall(id, name, arguments) == [id |-> id, name |-> name, arguments |-> arguments]

-----------------------------------------------------------------------------
(* The three patterns of the text-to-tool_calls converter *)

\* TOOL_CALL_PATTERN = ^TOOL_CALL:\s*(\w+)\s+(.+)$ at index i
ToolCallMatch(t, i) ==
  IF ~(AtLineStart(t, i) /\ t[i] = "TOOL_CALL:") THEN NoMatch
  ELSE LET a == SkipWS(t, i + 1)
           b == SkipWord(t, a)
           c == SkipWS(t, b)
           back == {p \in (b + 1)..Len(t) : t[p] = "sp"}
       IN  IF b = a \/ c = b THEN NoMatch
           ELSE IF c <= Len(t)
             THEN [ok |-> TRUE, start |-> i, end |-> EndOfLine(t, c),
                   name |-> SubSeq(t, a, b - 1), args |-> SubSeq(t, c, EndOfLine(t, c))]
           ELSE IF back = {} THEN NoMatch
           ELSE [ok |-> TRUE, start |-> i, end |-> EndOfLine(t, Max(back)),
                 name |-> SubSeq(t, a, b - 1),
                 args |-> SubSeq(t, Max(back), EndOfLine(t, Max(back)))]

\* BARE_EXEC_PATTERN = ^exec\s+(.+)$ at index i
BareExecMatch(t, i) ==
  IF ~(AtLineStart(t, i) /\ t[i] = "exec") THEN NoMatch
  ELSE LET b == i + 1
           c == SkipWS(t, b)
           back == {p \in (b + 1)..Len(t) : t[p] = "sp"}
       IN  IF c = b THEN NoMatch
           ELSE IF c <= Len(t)
             THEN [ok |-> TRUE, start |-> i, end |-> EndOfLine(t, c),
                   name |-> <<"exec">>, args |-> SubSeq(t, c, EndOfLine(t, c))]
           ELSE IF back = {} THEN NoMatch
           ELSE [ok |-> TRUE, start |-> i, end |-> EndOfLine(t, Max(back)),
                 name |-> <<"exec">>,
                 args |-> SubSeq(t, Max(back), EndOfLine(t, Max(back)))]

\* MARKDOWN_EXEC_PATTERN = FENCE(?:\w*)\n(exec\s+.+?)\nFENCE, FENCE the three backquotes, (DOTALL) at index i.
\* \s+ is greedy and .+? lazy: the first closing fence after the whitespace run
\* is taken, and only when there is none the one that ends the run itself.
MarkdownExecMatch(t, i) ==
  IF t[i] # "fence" THEN NoMatch
  ELSE LET a == SkipWord(t, i + 1)
           c == SkipWS(t, a + 2)
           close == {q \in (a + 4)..(Len(t) - 1) : t[q] = "nl" /\ t[q + 1] = "fence"}
           after == {q \in close : q >= c + 1}
           q0 == IF after # {} THEN Min(after) ELSE Min(close)
       IN  IF a + 2 > Len(t) THEN NoMatch
           ELSE IF ~(t[a] = "nl" /\ t[a + 1] = "exec" /\ IsWS(t[a + 2])) THEN NoMatch
           ELSE IF close = {} THEN NoMatch
           ELSE [ok |-> TRUE, start |-> i, end |-> q0 + 1,
                 name |-> <<"exec">>, args |-> SubSeq(t, a + 1, q0 - 1)]

\* pattern.findall(text): the matches left to right, not overlapping
RECURSIVE ToolCallScan(_, _)
ToolCallScan(t, i) ==
  IF i > Len(t) THEN <<>>
  ELSE LET m == ToolCallMatch(t, i)
       IN  IF m.ok THEN <<m>> \o ToolCallScan(t, m.end + 1) ELSE ToolCallScan(t, i + 1)

RECURSIVE BareExecScan(_, _)
BareExecScan(t, i) ==
  IF i > Len(t) THEN <<>>
  ELSE LET m == BareExecMatch(t, i)
       IN  IF m.ok THEN <<m>> \o BareExecScan(t, m.end + 1) ELSE BareExecScan(t, i + 1)

RECURSIVE MarkdownExecScan(_, _)
MarkdownExecScan(t, i) ==
  IF i > Len(t) THEN <<>>
  ELSE LET m == MarkdownExecMatch(t, i)
       IN  IF m.ok THEN <<m>> \o MarkdownExecScan(t, m.end + 1)
           ELSE MarkdownExecScan(t, i + 1)

-----------------------------------------------------------------------------
(* convert_text_to_tool_calls *)

\* json.dumps({param_name: value}): the argument object, a list of key/value pairs
Args1(key, value) == <<<<key, value>>>>

\* the calls of pattern 1: a match naming an unknown tool is skipped, the
\* index i of the id counts every match
RECURSIVE MarkerCalls(_, _, _)
MarkerCalls(ms, defs, i) ==
  IF i > Len(ms) THEN <<>>
  ELSE (IF Len(ms[i].name) = 1 /\ ms[i].name[1] \in KnownTools(defs)
          THEN <<ToolCall(<<"call", ms[i].name[1], i - 1>>, ms[i].name[1],
                          Args1(ToolParam(defs, ms[i].name[1], "input"), Strip(ms[i].args)))>>
          ELSE <<>>)
       \o MarkerCalls(ms, defs, i + 1)

\* cmd of pattern 3: the 'exec ' prefix is cut when a blank follows exec
MarkdownCmd(line) ==
  LET cmd == Strip(line)
  IN  IF StartsWith(cmd, <<"exec", "sp">>) THEN Strip(SubSeq(cmd, 3, Len(cmd))) ELSE cmd

MarkdownCalls(ms, defs) ==
  [i \in 1..Len(ms) |->
     ToolCall(<<"call", "exec_md", i - 1>>, "exec",
              Args1(ToolParam(defs, "exec", "command"), MarkdownCmd(ms[i].args)))]

BareCalls(ms, defs) ==
  [i \in 1..Len(ms) |->
     ToolCall(<<"call", "exec_bare", i - 1>>, "exec",
              Args1(ToolParam(defs, "exec", "command"), Strip(ms[i].args)))]

\* the converter with the bare-line pattern tried before the fenced blocks
ConvertBareFirst(text, defs) ==
  LET matches == ToolCallScan(text, 1)
      calls1 == MarkerCalls(matches, defs, 1)
      md == MarkdownExecScan(text, 1)
      bare == BareExecScan(text, 1)
  IN  IF calls1 # <<>>
        THEN [cleaned |-> Strip(CutOut(text, Spans(matches), 1)), tool_calls |-> calls1]
      ELSE IF "exec" \in KnownTools(defs) /\ bare # <<>>
        THEN [cleaned |-> Strip(CutOut(text, Spans(bare), 1)),
              tool_calls |-> BareCalls(bare, defs)]
      ELSE IF "exec" \in KnownTools(defs) /\ md # <<>>
        THEN [cleaned |-> Strip(CutOut(text, Spans(md), 1)),
              tool_calls |-> MarkdownCalls(md, defs)]
      ELSE [cleaned |-> text, tool_calls |-> <<>>]

\* returns (cleaned_content, tool_calls); tool_calls = <<>> stands for None
convert_text_to_tool_calls(text, defs) ==
  LET matches == ToolCallScan(text, 1)
      calls1 == MarkerCalls(matches, defs, 1)
      md == MarkdownExecScan(text, 1)
      bare == BareExecScan(text, 1)
  IN  IF calls1 # <<>>
        THEN [cleaned |-> Strip(CutOut(text, Spans(matches), 1)), tool_calls |-> calls1]
      ELSE IF "exec" \in KnownTools(defs) /\ md # <<>>
        THEN [cleaned |-> Strip(CutOut(text, Spans(md), 1)),
              tool_calls |-> MarkdownCalls(md, defs)]
      ELSE IF "exec" \in KnownTools(defs) /\ bare # <<>>
        THEN [cleaned |-> Strip(CutOut(text, Spans(bare), 1)),
              tool_calls |-> BareCalls(bare, defs)]
      ELSE [cleaned |-> text, tool_calls |-> <<>>]

-----------------------------------------------------------------------------
(* fallback_tool_call: the command rules *)

\* XCITE_FALLBACKS, in the order of the dict: <<trigger, command>>
XCITE_FALLBACKS ==
  << <<"next", <<"prospect-store.mjs", "sp", "next">> >>,
     <<"stats", <<"prospect-store.mjs", "sp", "stats">> >>,
     <<"sent", <<"prospect-store.mjs", "sp", "mark-sent">> >>,
     <<"skip", <<"prospect-store.mjs", "sp", "mark-skipped">> >>,
     <<"replied", <<"prospect-store.mjs", "sp", "mark-replied">> >> >>

SKILL_MANAGER == <<"skill-manager.mjs">>

\* (?:^|\]\s*) in front of index i
RuleAnchor(s, i) ==
  i = 1 \/ \E j \in 1..(i - 1) : s[j] = "]" /\ \A k \in (j + 1)..(i - 1) : IsWS(s[k])

\* SKILL_LIST_RE = (?:^|\]\s*)(?:skills|skill list|/skills), re.IGNORECASE
SkillListAt(s, i) ==
  /\ RuleAnchor(s, i)
  /\ \/ LowerTok(s[i]) \in {"skills", "/skills"}
     \/ /\ i + 2 <= Len(s)
        /\ LowerTok(s[i]) = "skill" /\ s[i + 1] = "sp" /\ LowerTok(s[i + 2]) = "list"

\* SKILL_ENABLE_RE / SKILL_DISABLE_RE = (?:^|\]\s*)<verb>\s+(\S+), re.IGNORECASE
SkillVerbAt(s, i, verb) ==
  /\ RuleAnchor(s, i)
  /\ LowerTok(s[i]) = verb
  /\ SkipWS(s, i + 1) > i + 1
  /\ SkipWS(s, i + 1) <= Len(s)

\* group(1) of the leftmost match of the verb pattern
SkillVerbGroup(s, verb) ==
  LET i == Min({k \in 1..Len(s) : SkillVerbAt(s, k, verb)})
      c == SkipWS(s, i + 1)
  IN  SubSeq(s, c, SkipNonWS(s, c) - 1)

\* '@?' of SCOUT_RE on the first token of the seed
StripAt(c) == IF c = "@bob" THEN "bob" ELSE c

\* SCOUT_RE.match(msg) = scout\s+@?(\S+) at the start of msg
ScoutMatches(msg) ==
  /\ Len(msg) >= 1 /\ msg[1] = "scout"
  /\ SkipWS(msg, 2) > 2
  /\ SkipWS(msg, 2) <= Len(msg)

ScoutSeed(msg) ==
  LET c == SkipWS(msg, 2)
      g == SubSeq(msg, c, SkipNonWS(msg, c) - 1)
  IN  <<StripAt(g[1])>> \o SubSeq(g, 2, Len(g))

ConsensusWords == {"consensus", "/k_llm", "/k-llm", "k-llm", "k_llm", "kllm"}

\* the end of a [:\s]+ run that starts at j
SkipSep(t, j) == Min({k \in j..(Len(t) + 1) : k = Len(t) + 1 \/ ~(IsWS(t[k]) \/ t[k] = ":")})

\* CONSENSUS_RE = (?:^|\]\s*)(?:consensus|...)[:\s]+(.+), IGNORECASE | DOTALL
ConsensusAt(s, i) ==
  /\ RuleAnchor(s, i)
  /\ LowerTok(s[i]) \in ConsensusWords
  /\ SkipSep(s, i + 1) > i + 1
  /\ SkipSep(s, i + 1) <= Len(s) \/ SkipSep(s, i + 1) > i + 2

\* group(1): the rest of the text; the last separator when the run ends the text
ConsensusGroup(s) ==
  LET i == Min({k \in 1..Len(s) : ConsensusAt(s, k)})
      c == SkipSep(s, i + 1)
  IN  IF c <= Len(s) THEN SubSeq(s, c, Len(s)) ELSE <<s[Len(s)]>>

\* exec_markers: substrings that mark the result of an exec
exec_markers ==
  {<<"Exec", "sp", "completed">>, <<"consensus.mjs">>, <<"Tool", "sp", "result">>,
   <<"code", "sp", "0">>, <<"code", "sp", "1">>}

HasExecMarker(s) == \E m \in exec_markers : Contains(s, m)

ExecCall(id, cmd) == <<ToolCall(id, "exec", Args1("command", cmd))>>

\* the trigger of XCITE_FALLBACKS that msg names (0 when none)
XciteIndex(msg) ==
  LET hit == {k \in 1..Len(XCITE_FALLBACKS) :
                 \/ msg = <<XCITE_FALLBACKS[k][1]>>
                 \/ StartsWith(msg, <<XCITE_FALLBACKS[k][1], "sp">>)}
  IN  IF hit = {} THEN 0 ELSE Min(hit)

\* returns the forced tool calls, <<>> standing for None; chat_id is None or a text
fallback_tool_call(user_msg, defs, chat_id) ==
  LET has_exec == \E k \in 1..Len(defs) : defs[k].type = "function" /\ defs[k].name = "exec"
      s == Strip(user_msg)
      msg == Lower(s)
  IN  IF defs = <<>> \/ ~has_exec THEN <<>>
      ELSE IF \E i \in 1..Len(s) : SkillListAt(s, i)
        THEN ExecCall(<<"call", "skills", 0>>, SKILL_MANAGER \o <<"sp", "list">>)
      ELSE IF \E i \in 1..Len(s) : SkillVerbAt(s, i, "enable")
        THEN ExecCall(<<"call", "skills", 0>>,
                      SKILL_MANAGER \o <<"sp", "enable", "sp">> \o Lower(SkillVerbGroup(s, "enable")))
      ELSE IF \E i \in 1..Len(s) : SkillVerbAt(s, i, "disable")
        THEN ExecCall(<<"call", "skills", 0>>,
                      SKILL_MANAGER \o <<"sp", "disable", "sp">> \o Lower(SkillVerbGroup(s, "disable")))
      ELSE IF XciteIndex(msg) # 0
        THEN ExecCall(<<"call", "fallback", 0>>, XCITE_FALLBACKS[XciteIndex(msg)][2])
      ELSE IF ScoutMatches(msg)
        THEN ExecCall(<<"call", "fallback", 0>>,
                      <<"scout-batch.mjs", "sp", "--seed", "sp">> \o Lower(ScoutSeed(msg)))
      ELSE IF ~HasExecMarker(user_msg) /\ \E i \in 1..Len(s) : ConsensusAt(s, i)
        THEN <<ToolCall(<<"call", "consensus", 0>>, "exec",
                 << <<"command",
                      <<"consensus.mjs", "sp", "--prompt", "sp">> \o Strip(ConsensusGroup(s))
                        \o (IF chat_id = None THEN <<>> ELSE <<"sp", "--chatId", "sp">> \o chat_id)>>,
                    <<"timeoutMs", <<"120000">> >> >>)>>
      ELSE <<>>

-----------------------------------------------------------------------------
(* Configuration tables *)

MODEL_MAP ==
  [x \in {"gpt-5.2", "gpt-5.1-codex", "gpt-5", "gpt-5-mini", "gpt-4.1"} |->
     CASE x = "gpt-5.1-codex" -> "qwen2.5-coder:32b"
       [] x = "gpt-5-mini" -> "phi4:latest"
       [] OTHER -> "llama3.3:latest"]

\* the keys of REVERSE_MAP in the insertion order of the dict
REVERSE_MAP == <<"llama3.3:latest", "qwen2.5-coder:32b", "phi4:latest">>

DIRECT_ROUTES ==
  [x \in {"deepseek-v3", "gemini-flash"} |->
     [actual_model |-> IF x = "deepseek-v3" THEN "deepseek/deepseek-chat"
                       ELSE "google/gemini-2.0-flash-001",
      strip_params |-> {"store", "metadata", "service_tier"}]]

UNSUPPORTED_PARAMS ==
  {"thinking", "reasoning_effort", "store", "metadata", "service_tier",
   "parallel_tool_calls", "stream_options", "tools", "tool_choice"}

MAX_HISTORY == 4

chunk_size == 100

SYSTEM_OVERRIDE == <<"nl", "nl", "SYSTEM_OVERRIDE">>

DIRECT_OVERRIDE == <<"nl", "nl", "DIRECT_OVERRIDE">>

NO_REPLY_FALLBACK == <<"Hey!", "sp", "What's on your mind?">>

-----------------------------------------------------------------------------
(* Messages *)

\* one message of a chat: tool_calls and tool_call_id tell whether the key is
\* there (a tool result carries the id of the call it answers); parts tells
\* that content is a list of parts, and content is then the text of its first
\* text part, None when it has none
Msg(id, role, text, tc, name) ==
  [id |-> id, role |-> role, content |-> text, tool_calls |-> tc, name |-> name,
   tool_call_id |-> (role = "tool"), parts |-> FALSE]

IsSystem(m) == m.role \in {"system", "developer"}

IsConvo(m) == ~IsSystem(m)

-----------------------------------------------------------------------------
(* do_POST: the latest genuine user text *)

OneChar == {"sp", "nl", "[", "]", ":", "{"}

\* re.search(r'(?:id:|telegram:)(\d{5,})', txt)
ChatIdOf(txt, chat) == IF Contains(txt, <<"id:12345">>) THEN <<"12345">> ELSE chat

\* re.search(r'FENCE\s*\n\n(.+)', txt, DOTALL): the start of group(1), 0 when none
MetaGroupStart(t) ==
  LET ok(f, q) == /\ t[f] = "fence"
                  /\ \A k \in (f + 1)..(q + 1) : IsWS(t[k])
                  /\ t[q] = "nl" /\ t[q + 1] = "nl"
                  /\ q + 2 <= Len(t)
      fs == {f \in 1..Len(t) : \E q \in (f + 1)..(Len(t) - 2) : ok(f, q)}
  IN  IF fs = {} THEN 0
      ELSE Max({q \in (Min(fs) + 1)..(Len(t) - 2) : ok(Min(fs), q)}) + 2

\* re.search(r'\n\n([^\n].+)', txt, DOTALL): the start of group(1), 0 when none
NlGroupStart(t) ==
  LET ps == {q \in 1..(Len(t) - 2) :
               /\ t[q] = "nl" /\ t[q + 1] = "nl" /\ t[q + 2] # "nl"
               /\ t[q + 2] \notin OneChar \/ q + 3 <= Len(t)}
  IN  IF ps = {} THEN 0 ELSE Min(ps) + 2

\* the cron/system filter on the stripped text
LooksSynthetic(t) ==
  \/ StartsWith(t, <<"System:">>)
  \/ Contains(Lower(t), <<"cron", "sp", "job">>)
  \/ Contains(t, <<"Cron:">>)
  \/ StartsWith(t, <<"NO_REPLY">>)

\* the text a user message contributes: [skip, txt]
UserText(c) ==
  LET txt == IF c = None THEN <<>> ELSE c
      meta == MetaGroupStart(txt)
      nlg == NlGroupStart(txt)
      cand == Strip(SubSeq(txt, nlg, Len(txt)))
      got == IF ~StartsWith(Strip(txt), <<"Conversation", "sp", "info">>)
               THEN [skip |-> FALSE, txt |-> txt]
             ELSE IF meta # 0
               THEN [skip |-> FALSE, txt |-> Strip(SubSeq(txt, meta, Len(txt)))]
             ELSE IF nlg # 0 /\ ~StartsWith(cand, <<"fence">>) /\ ~StartsWith(cand, <<"{">>)
               THEN [skip |-> FALSE, txt |-> cand]
             ELSE [skip |-> TRUE, txt |-> txt]
  IN  IF got.skip \/ LooksSynthetic(Strip(got.txt)) THEN [skip |-> TRUE, txt |-> <<>>]
      ELSE got

\* the loop over reversed(messages): [found, txt, chat]
RECURSIVE WalkUser(_, _, _)
WalkUser(ms, i, chat) ==
  IF i = 0 THEN [found |-> FALSE, txt |-> <<>>, chat |-> chat]
  ELSE IF ms[i].role # "user" THEN WalkUser(ms, i - 1, chat)
  ELSE LET c == IF ms[i].content = None THEN <<>> ELSE ms[i].content
           chat2 == IF StartsWith(Strip(c), <<"Conversation", "sp", "info">>)
                      THEN ChatIdOf(c, chat) ELSE chat
       IN  IF UserText(c).skip THEN WalkUser(ms, i - 1, chat2)
           ELSE [found |-> TRUE, txt |-> UserText(c).txt, chat |-> chat2]

\* has_tool_results: the last non-system message is the echo of a tool call
has_tool_results(ms) ==
  LET non_system_msgs == SelectSeq(ms, IsConvo)
      last == non_system_msgs[Len(non_system_msgs)]
  IN  /\ non_system_msgs # <<>>
      /\ \/ last.role = "tool"
         \/ last.role = "assistant" /\ last.tool_calls
         \/ last.content # None /\ Contains(last.content, <<"Exec", "sp", "completed">>)

SyntheticExec == <<Tool("function", "exec", <<"command">>)>>

\* forced_tc of do_POST
ForcedShortcut(data) ==
  LET w == WalkUser(data.messages, Len(data.messages), None)
  IN  IF ~w.found \/ w.txt = <<>> \/ has_tool_results(data.messages) THEN <<>>
      ELSE IF data.tools # <<>> THEN fallback_tool_call(w.txt, data.tools, w.chat)
      ELSE fallback_tool_call(w.txt, SyntheticExec, w.chat)

-----------------------------------------------------------------------------
(* do_POST: normalisation of the request for the local backend *)

\* the names build_tool_prompt lists; <<>> makes it return None
RECURSIVE PromptNames(_, _)
PromptNames(defs, k) ==
  IF k > Len(defs) THEN <<>>
  ELSE (IF defs[k].type = "function" /\ defs[k].name # "" THEN <<defs[k].name>> ELSE <<>>)
       \o PromptNames(defs, k + 1)

build_tool_prompt(defs) ==
  IF PromptNames(defs, 1) = <<>> THEN None
  ELSE <<"nl", "nl", "TOOL_PROMPT">> \o PromptNames(defs, 1)

inject_tool_descriptions(msgs, tool_text) ==
  LET sys == {k \in 1..Len(msgs) : IsSystem(msgs[k])}
  IN  IF sys = {} THEN <<Msg(0, "system", Strip(tool_text), FALSE, <<>>)>> \o msgs
      ELSE [k \in 1..Len(msgs) |->
              IF k = Min(sys) /\ msgs[k].content # None
                THEN [msgs[k] EXCEPT !.content = @ \o tool_text]
                ELSE msgs[k]]

NoReplyTokens == {"NO_REPLY", "no_reply"}

\* '\n{3,}' -> '\n\n': a newline that follows two newlines is dropped
CollapseNewlines(t) ==
  CutOut(t, {k \in 3..Len(t) : t[k] = "nl" /\ t[k - 1] = "nl" /\ t[k - 2] = "nl"}, 1)

strip_no_reply_from_content(c) ==
  IF c = None THEN None
  ELSE LET bad == {k \in 1..Len(c) :
                      \/ c[k] \in NoReplyTokens
                      \/ /\ k + 2 <= Len(c)
                         /\ LowerTok(c[k]) = "no" /\ IsWS(c[k + 1]) /\ LowerTok(c[k + 2]) = "reply"}
           SameLine(j, k) == \A m \in (IF j < k THEN j..k ELSE k..j) : c[m] # "nl"
           gone == {k \in 1..Len(c) : \E j \in bad : SameLine(j, k)}
       IN  CollapseNewlines(CutOut(c, gone, 1)) \o SYSTEM_OVERRIDE

\* the cleaning that turns tool results into user turns and leaves the other
\* messages as they came
CleanToolResultsOnly(m) ==
  IF m.role = "tool"
    THEN Msg(m.id, "user",
             <<"[", "Tool", "sp", "result", "sp", "from", "sp">>
               \o (IF m.name = <<>> THEN <<"tool">> ELSE m.name) \o <<"]", ":", "sp">>
               \o m.content,
             FALSE, <<>>)
  ELSE m

\* one pass of the 'Clean messages' loop
CleanMessage(m) ==
  IF m.role = "tool"
    THEN Msg(m.id, "user",
             <<"[", "Tool", "sp", "result", "sp", "from", "sp">>
               \o (IF m.name = <<>> THEN <<"tool">> ELSE m.name) \o <<"]", ":", "sp">>
               \o m.content,
             FALSE, <<>>)
  ELSE IF IsSystem(m)
    THEN [m EXCEPT !.tool_calls = FALSE, !.tool_call_id = FALSE,
                   !.content = strip_no_reply_from_content(m.content)]
  ELSE IF m.role = "assistant"
    THEN [m EXCEPT !.tool_calls = FALSE, !.tool_call_id = FALSE,
                   !.content = IF m.content # None /\ Strip(m.content) \in {<<x>> : x \in NoReplyTokens}
                                 THEN <<"(thinking...)">>
                               ELSE IF m.content = None \/ m.content = <<>>
                                 THEN <<"(no response)">>
                               ELSE m.content]
  ELSE [m EXCEPT !.tool_calls = FALSE, !.tool_call_id = FALSE]

\* the trimming with the oldest conversation messages kept
TrimHistoryOldest(cleaned_msgs) ==
  LET system_msgs == SelectSeq(cleaned_msgs, IsSystem)
      convo_msgs == SelectSeq(cleaned_msgs, IsConvo)
  IN  system_msgs \o
      (IF Len(convo_msgs) > MAX_HISTORY THEN SubSeq(convo_msgs, 1, MAX_HISTORY)
         ELSE convo_msgs)

\* 'Message Trimming'
TrimHistory(cleaned_msgs) ==
  LET system_msgs == SelectSeq(cleaned_msgs, IsSystem)
      convo_msgs == SelectSeq(cleaned_msgs, IsConvo)
  IN  system_msgs \o
      (IF Len(convo_msgs) > MAX_HISTORY
         THEN SubSeq(convo_msgs, Len(convo_msgs) - MAX_HISTORY + 1, Len(convo_msgs))
         ELSE convo_msgs)

\* the index of the last user message (0 when none)
LastUserIdx(msgs) ==
  LET us == {k \in 1..Len(msgs) : msgs[k].role = "user"}
  IN  IF us = {} THEN 0 ELSE Max(us)

\* last_user_text of the web-search section; None when there is none
LastUserText(msgs) ==
  IF LastUserIdx(msgs) = 0 THEN None ELSE msgs[LastUserIdx(msgs)].content

TokLen(c) ==
  CASE c \in OneChar -> 1
    [] c \in {"ok", "hi", "ls"} -> 2
    [] c \in {"next", "skip", "sent", "list", "exec", "grep", "Exec", "Tool", "cron", "kllm"} -> 4
    [] OTHER -> 5

RECURSIVE CharLen(_)
CharLen(t) == IF t = <<>> THEN 0 ELSE TokLen(Head(t)) + CharLen(Tail(t))

SEARCH_TRIGGERS == {"latest", "current", "today", "news", "weather", "search"}

Greetings == {"hi", "hello", "hey", "thanks", "ok", "yes", "no"}

\* SEARCH_SKIP = ^(?:hi|hello|...)\s*[?!.]*$
SEARCH_SKIP(t) ==
  /\ t # <<>>
  /\ LowerTok(t[1]) \in Greetings
  /\ \E k \in 1..Len(t) : /\ \A j \in 2..k : IsWS(t[j])
                          /\ \A j \in (k + 1)..Len(t) : t[j] = "?"

\* the skip_markers that the model's alphabet can spell
HasSkipMarker(t) ==
  \/ \E k \in 1..Len(t) : t[k] \in {"cron", "Cron:", "HEARTBEAT", "sessionId"}
  \/ Contains(t, <<"Conversation", "sp", "info">>)
  \/ Contains(t, <<"exec", "sp", "cd">>)

\* needs_web_search, with HAS_DDGS true
needs_web_search(text) ==
  LET t == Strip(text)
      words == Cardinality({k \in 1..Len(t) : ~IsWS(t[k]) /\ (k = 1 \/ IsWS(t[k - 1]))})
  IN  /\ CharLen(t) >= 5
      /\ ~HasSkipMarker(t)
      /\ t[1] \notin {"[", "{"}
      /\ CharLen(t) <= 300
      /\ ~SEARCH_SKIP(t)
      /\ \/ \E k \in 1..Len(t) : LowerTok(t[k]) \in SEARCH_TRIGGERS
         \/ t[Len(t)] = "?" /\ words > 4

\* the search results put behind the last user message instead of before it
InsertSearchAfter(msgs) ==
  LET i == LastUserIdx(msgs)
  IN  SubSeq(msgs, 1, i) \o <<Msg(0, "system", <<"SEARCH_RESULTS">>, FALSE, <<>>)>>
        \o SubSeq(msgs, i + 1, Len(msgs))

\* data['messages'].insert(last_user_idx, search_msg)
InsertSearch(msgs) ==
  LET i == LastUserIdx(msgs)
  IN  SubSeq(msgs, 1, i - 1) \o <<Msg(0, "system", <<"SEARCH_RESULTS">>, FALSE, <<>>)>>
        \o SubSeq(msgs, i, Len(msgs))

\* the messages of the local route before the web search
LocalMessages(data) ==
  LET tool_text == build_tool_prompt(data.tools)
      \* without the key, data.get('messages', []) hands inject_tool_descriptions
      \* a list of its own, and what is inserted there is not in data
      injected == IF data.tools # <<>> /\ tool_text # None /\ data.has_messages
                    THEN inject_tool_descriptions(data.messages, tool_text)
                    ELSE data.messages
  IN  TrimHistory([k \in 1..Len(injected) |-> CleanMessage(injected[k])])

-----------------------------------------------------------------------------
(* Response bodies and SSE frames *)

\* a JSON body: kind "completion" has choices[0].message, "error_json" is a
\* JSON object without the key choices, "no_choices" a JSON object whose choices
\* list is empty, "garbage" is not JSON (content holds the text)
Body(kind, model, role, text, tcs, finish, usage) ==
  [kind |-> kind, model |-> model, role |-> role, content |-> text,
   tool_calls |-> tcs, finish |-> finish, usage |-> usage]

NoBody == Body("none", "", "absent", None, <<>>, "absent", FALSE)

\* one 'data: {...}' frame: delta holds the keys of choices[0].delta, usage
\* tells whether the chunk has a usage key
Chunk(model, delta, role, text, tcs, finish, usage) ==
  [done |-> FALSE, model |-> model, delta |-> delta, role |-> role, content |-> text,
   tool_calls |-> tcs, finish |-> finish, usage |-> usage]

\* 'data: [DONE]'
DONE == [done |-> TRUE, model |-> "", delta |-> {}, role |-> "", content |-> <<>>,
         tool_calls |-> <<>>, finish |-> "null", usage |-> FALSE]

Response(kind, status, body, events) ==
  [kind |-> kind, status |-> status, body |-> body, events |-> events]

NoResponse == Response("none", 0, NoBody, <<>>)

\* the entry of delta.tool_calls with the index counted from 1
DeltaCallFromOne(idx, tc) ==
  [index |-> idx + 1, id |-> tc.id, name |-> tc.name, arguments |-> tc.arguments]

\* the entry of delta.tool_calls for the call tc at position idx
DeltaCall(idx, tc) ==
  [index |-> idx, id |-> tc.id, name |-> tc.name, arguments |-> tc.arguments]

\* message fields as the code reads them, with the defaults of dict.get
MsgContent(b) == IF b.kind = "completion" /\ b.content # None THEN b.content ELSE <<>>

MsgRole(b) == IF b.kind = "completion" /\ b.role # "absent" THEN b.role ELSE "assistant"

MsgToolCalls(b) == IF b.kind = "completion" THEN b.tool_calls ELSE <<>>

MsgFinish(b) == IF b.kind = "completion" /\ b.finish # "absent" THEN b.finish ELSE "stop"

\* the content pieces with the loop run once too often at a full last piece
PiecesOneMore(text) ==
  [k \in 1..(Len(text) \div chunk_size + 1) |->
     SubSeq(text, (k - 1) * chunk_size + 1,
            IF k * chunk_size < Len(text) THEN k * chunk_size ELSE Len(text))]

\* the content pieces: for i in range(0, max(len(content), 1), chunk_size)
Pieces(text) ==
  LET n == IF Len(text) = 0 THEN 1 ELSE (Len(text) + chunk_size - 1) \div chunk_size
  IN  [k \in 1..n |->
         SubSeq(text, (k - 1) * chunk_size + 1,
                IF k * chunk_size < Len(text) THEN k * chunk_size ELSE Len(text))]

\* the SSE frames of the forced shortcut in do_POST
ShortcutFrames(forced_tc, original_model) ==
  [idx \in 1..Len(forced_tc) |->
     Chunk(original_model,
           IF idx = 1 THEN {"tool_calls", "role"} ELSE {"tool_calls"},
           IF idx = 1 THEN "assistant" ELSE "",
           <<>>, <<DeltaCall(idx - 1, forced_tc[idx])>>, "null", FALSE)]
  \o <<Chunk(original_model, {}, "", <<>>, <<>>, "tool_calls", FALSE), DONE>>

\* the try block of the conversion runs to its end with any body that parses
ConvertibleIfParsed(b) == b.kind # "garbage"

\* the try block of the conversion runs to its end: json.loads accepts the
\* body, choices[0] exists where the key is present, and every tool call has
\* the keys id and function the loop reads (an id None and a name "absent"
\* stand for a missing key)
Convertible(b) ==
  /\ b.kind \in {"completion", "error_json"}
  /\ \A k \in 1..Len(MsgToolCalls(b)) :
       MsgToolCalls(b)[k].id # None /\ MsgToolCalls(b)[k].name # "absent"

\* the SSE frames of a parsed body: the conversion shared by _proxy and
\* _direct_proxy, which differ only in the model they report
BodyFrames(b, model) ==
  IF MsgToolCalls(b) # <<>>
    THEN [idx \in 1..Len(MsgToolCalls(b)) |->
            Chunk(model,
                  IF idx = 1 THEN {"tool_calls", "role"} ELSE {"tool_calls"},
                  IF idx = 1 THEN MsgRole(b) ELSE "",
                  <<>>, <<DeltaCall(idx - 1, MsgToolCalls(b)[idx])>>, "null", FALSE)]
         \o <<Chunk(model, {}, "", <<>>, <<>>, "tool_calls", TRUE), DONE>>
    ELSE <<Chunk(model, {"role", "content"}, MsgRole(b), <<>>, <<>>, "null", FALSE)>>
         \o [k \in 1..Len(Pieces(MsgContent(b))) |->
               Chunk(model, {"content"}, "", Pieces(MsgContent(b))[k], <<>>, "null", FALSE)]
         \o <<Chunk(model, {}, "", <<>>, <<>>, MsgFinish(b), TRUE), DONE>>

\* model = resp_json.get('model', original_model) in _proxy
ProxyFrames(b, original_model) ==
  BodyFrames(b, IF b.kind = "completion" THEN b.model ELSE original_model)

\* model = original_model in _direct_proxy
DirectFrames(b, original_model) == BodyFrames(b, original_model)

-----------------------------------------------------------------------------
(* _proxy: what is done to the answer of the local backend *)

Replace(t, old, new) == [k \in 1..Len(t) |-> IF t[k] = old THEN new ELSE t[k]]

RECURSIVE RewriteText(_, _, _)
RewriteText(t, original_model, k) ==
  IF k > Len(REVERSE_MAP) THEN t
  ELSE RewriteText(Replace(t, REVERSE_MAP[k], original_model), original_model, k + 1)

\* the rewrite applied to the model field only
RewriteModelFieldOnly(b, original_model) ==
  [b EXCEPT !.model = RewriteText(<<b.model>>, original_model, 1)[1]]

\* text.replace(local_name, original_model) for local_name in REVERSE_MAP, on
\* the whole body: the model field and the text
rewrite_model_in_response(b, original_model) ==
  [b EXCEPT !.model = RewriteText(<<b.model>>, original_model, 1)[1],
            !.content = IF b.content = None THEN None
                        ELSE RewriteText(b.content, original_model, 1)]

\* content.strip().upper() == 'NO_REPLY'
IsNoReply(c) == c # None /\ Strip(c) \in {<<x>> : x \in NoReplyTokens}

\* the tool-call section of _proxy with the text of the model dropped when a
\* command rule fires, as the shortcut of do_POST does
InjectDroppingText(b, tool_defs_, last_user_text) ==
  LET forced_tc == IF last_user_text = None \/ last_user_text = <<>> THEN <<>>
                   ELSE fallback_tool_call(last_user_text, tool_defs_, None)
      conv == convert_text_to_tool_calls(MsgContent(b), tool_defs_)
  IN  IF tool_defs_ = <<>> \/ b.kind # "completion" THEN [body |-> b, src |-> "backend"]
      ELSE IF forced_tc # <<>>
        THEN [body |-> [b EXCEPT !.tool_calls = forced_tc, !.content = None,
                                 !.finish = "tool_calls"],
              src |-> "rule_inject"]
      ELSE IF conv.tool_calls # <<>>
        THEN [body |-> [b EXCEPT !.tool_calls = conv.tool_calls,
                                 !.content = IF conv.cleaned = <<>> THEN None ELSE conv.cleaned,
                                 !.finish = "tool_calls"],
              src |-> "extract"]
      ELSE [body |-> b, src |-> "backend"]

\* the tool-call section of _proxy writing a finish reason also when neither
\* a command rule nor the converter produced a call
InjectSettingFinish(b, tool_defs_, last_user_text) ==
  LET forced_tc == IF last_user_text = None \/ last_user_text = <<>> THEN <<>>
                   ELSE fallback_tool_call(last_user_text, tool_defs_, None)
      conv == convert_text_to_tool_calls(MsgContent(b), tool_defs_)
  IN  IF tool_defs_ = <<>> \/ b.kind # "completion" THEN [body |-> b, src |-> "backend"]
      ELSE IF forced_tc # <<>>
        THEN [body |-> [b EXCEPT !.tool_calls = forced_tc,
                                 !.content = IF MsgContent(b) = <<>> THEN None ELSE MsgContent(b),
                                 !.finish = "tool_calls"],
              src |-> "rule_inject"]
      ELSE IF conv.tool_calls # <<>>
        THEN [body |-> [b EXCEPT !.tool_calls = conv.tool_calls,
                                 !.content = IF conv.cleaned = <<>> THEN None ELSE conv.cleaned,
                                 !.finish = "tool_calls"],
              src |-> "extract"]
      ELSE [body |-> [b EXCEPT !.finish = "stop"], src |-> "backend"]

\* the tool-call section of _proxy: [body, src]
InjectToolCalls(b, tool_defs_, last_user_text) ==
  LET forced_tc == IF last_user_text = None \/ last_user_text = <<>> THEN <<>>
                   ELSE fallback_tool_call(last_user_text, tool_defs_, None)
      conv == convert_text_to_tool_calls(MsgContent(b), tool_defs_)
  IN  IF tool_defs_ = <<>> \/ b.kind # "completion" THEN [body |-> b, src |-> "backend"]
      ELSE IF forced_tc # <<>>
        THEN [body |-> [b EXCEPT !.tool_calls = forced_tc,
                                 !.content = IF MsgContent(b) = <<>> THEN None ELSE MsgContent(b),
                                 !.finish = "tool_calls"],
              src |-> "rule_inject"]
      ELSE IF conv.tool_calls # <<>>
        THEN [body |-> [b EXCEPT !.tool_calls = conv.tool_calls,
                                 !.content = IF conv.cleaned = <<>> THEN None ELSE conv.cleaned,
                                 !.finish = "tool_calls"],
              src |-> "extract"]
      ELSE [body |-> b, src |-> "backend"]

\* the NO_REPLY section of _proxy
InterceptNoReply(b) ==
  IF b.kind = "completion" /\ IsNoReply(b.content)
    THEN [b EXCEPT !.content = NO_REPLY_FALLBACK] ELSE b

\* data as _proxy has it before it writes the response; each stage works on
\* the value the stage before it produced
ProxyData(answer, c) ==
  CHOOSE d \in {[body |-> InterceptNoReply(r.body), src |-> r.src] :
                  r \in {InjectToolCalls(b, c.tool_defs, c.last_user_text) :
                           b \in {rewrite_model_in_response(answer.body, c.original_model)}}} : TRUE

\* the response _proxy writes
ProxyResponse(answer, c) ==
  CHOOSE r \in {IF c.client_wants_stream /\ Convertible(data)
                   THEN Response("sse", answer.status, NoBody, ProxyFrames(data, c.original_model))
                   ELSE Response("json", answer.status, data, <<>>) :
                 data \in {ProxyData(answer, c).body}} : TRUE

\* the response _direct_proxy writes
DirectResponse(answer, c) ==
  IF c.client_wants_stream /\ Convertible(answer.body)
    THEN Response("sse", 200, NoBody, DirectFrames(answer.body, c.original_model))
  ELSE IF c.client_wants_stream THEN Response("json", answer.status, answer.body, <<>>)
  ELSE Response("json", answer.status,
                IF answer.body.kind = "garbage" THEN answer.body
                ELSE [answer.body EXCEPT !.model = c.original_model], <<>>)

\* the except branch with nothing written to the client
ProxyErrorSilent == Response("none", 0, NoBody, <<>>)

\* the 502 of the except branch
ProxyError == Response("json", 502, Body("proxy_error", "", "absent", None, <<>>, "absent", FALSE), <<>>)

-----------------------------------------------------------------------------
(* Inputs: the requests of the clients and the answers of the backends *)

\* all the sequences over S of length at most n
SeqsUpTo(S, n) == UNION {[1..k -> S] : k \in 0..n}

ExecTool == Tool("function", "exec", <<"command">>)

GrepTool == Tool("function", "grep", <<"pattern", "path">>)

ToolSets == {<<>>, <<ExecTool>>, <<GrepTool>>, <<ExecTool, GrepTool>>}

ClientModels == {"gpt-5.2", "gpt-5-mini", "deepseek-v3", "other-model"}

\* role, content, tool_calls, name of the messages a request is built from
MessageKinds ==
  { <<"system", <<"be", "sp", "nice">>, FALSE, <<>>>>,
    <<"user", <<"hello">>, FALSE, <<>>>>,
    <<"user", <<"next">>, FALSE, <<>>>>,
    <<"user", <<"Cron:", "]", "skills">>, FALSE, <<>>>>,
    <<"user", <<"Conversation", "sp", "info", "sp", "id:12345", "nl", "fence", "nl", "nl",
                "consensus", ":", "sp", "hello">>, FALSE, <<>>>>,
    <<"assistant", <<"ok">>, FALSE, <<>>>>,
    <<"assistant", None, TRUE, <<>>>>,
    <<"tool", <<"[", "ok", "]", "sp", "skills">>, FALSE, <<"exec">>>> }

MessageLists(kinds, n) ==
  {[k \in 1..Len(q) |-> Msg(k, q[k][1], q[k][2], q[k][3], q[k][4])] : q \in SeqsUpTo(kinds, n)}

\* has_messages tells whether the body has the key messages
Request(valid, model, stream, messages, tools, params) ==
  [valid |-> valid, model |-> model, stream |-> stream, messages |-> messages,
   tools |-> tools, params |-> params, has_messages |-> TRUE]

\* a body that json.loads rejects
BadRequest == Request(FALSE, "", FALSE, <<>>, <<>>, {})

Requests ==
  {BadRequest} \cup
  {Request(TRUE, m, st, ms, ts, {"temperature", "store"}) :
     m \in ClientModels, st \in BOOLEAN, ms \in MessageLists(MessageKinds, MaxMsgs),
     ts \in ToolSets}

NativeCall == ToolCall(<<"call", "native", 0>>, "exec", Args1("command", <<"ls">>))

Answer(status, body) == [status |-> status, body |-> body]

\* what a backend asked for the model id m can answer
Completions(m, texts) ==
  {Answer(200, Body("completion", m, "assistant", t, <<>>, "stop", TRUE)) : t \in texts}

Failures ==
  {Answer(500, Body("error_json", "", "absent", None, <<>>, "absent", FALSE)),
   Answer(200, Body("no_choices", "", "absent", None, <<>>, "absent", TRUE)),
   Answer(502, Body("garbage", "", "absent", <<"Bad", "sp", "Gateway">>, <<>>, "absent", FALSE))}

LocalTexts(m) ==
  {None, <<"hi">>, <<"NO_REPLY">>, <<"TOOL_CALL:", "sp", "exec", "sp", "ls">>,
   <<"ok", "nl", "TOOL_CALL:", "sp", "exec", "sp", "ls", "nl", "TOOL_CALL:", "sp", "grep", "sp", "/x">>,
   <<"from", "sp", m, "sp", "phi4:latest">>}

\* a completion whose finish_reason is JSON null
Unfinished(m) == Answer(200, Body("completion", m, "assistant", <<"hi">>, <<>>, "null", TRUE))

\* completions whose tool call lacks the key id, or the key function
Malformed(m) ==
  {Answer(200, Body("completion", m, "assistant", None, <<tc>>, "tool_calls", TRUE)) :
     tc \in {ToolCall(None, "exec", Args1("command", <<"ls">>)),
             ToolCall(<<"call", "native", 0>>, "absent", <<>>)}}

LocalAnswers(m) ==
  Completions(m, LocalTexts(m)) \cup {Unfinished(m)} \cup Malformed(m) \cup Failures

DirectAnswers(m) ==
  Completions(m, {<<"hi">>, <<"NO_REPLY">>})
  \cup {Answer(200, Body("completion", m, "assistant", t, <<NativeCall>>, "tool_calls", TRUE)) :
          t \in {None, <<"on", "sp", "it">>}}
  \cup {Unfinished(m)} \cup Malformed(m) \cup Failures

-----------------------------------------------------------------------------
(* The handler of one POST request *)

Context(original_model, client_wants_stream, defs, last_user_text) ==
  [original_model |-> original_model, client_wants_stream |-> client_wants_stream,
   tool_defs |-> defs, last_user_text |-> last_user_text]

NoContext == Context("", FALSE, <<>>, None)

Outbound(route, model, stream, messages, tools, params) ==
  [route |-> route, model |-> model, stream |-> stream, messages |-> messages,
   tools |-> tools, params |-> params]

NoOutbound == Outbound("none", "", FALSE, <<>>, <<>>, {})

\* the stream flag of the client passed on to the backend
ClientStream(data) == data.stream

\* data['stream'] = False: the flag of every body sent to a backend
ForcedStream(data) == FALSE

NoAnswer == Answer(0, NoBody)

NoConversion == [cleaned |-> <<>>, tool_calls |-> <<>>]

ConvVarsUnchanged == UNCHANGED <<content, tool_defs, converted, peer, tables>>

\* json.loads(body) fails: the except branch prints, and the call of _proxy
\* after it reads tool_defs, which was never bound: the handler dies with
\* UnboundLocalError and the connection is closed without a response
DoPostParseError ==
  /\ pc = "recv" /\ ~req.valid
  /\ pc' = "crashed"
  /\ UNCHANGED <<req, ctx, out, calls, ans, resp, src>>
  /\ ConvVarsUnchanged

\* a command rule matches: the model is skipped
DoPostShortcut ==
  /\ pc = "recv" /\ req.valid
  /\ ForcedShortcut(req) # <<>>
  /\ resp' = IF req.stream
               THEN Response("sse", 200, NoBody, ShortcutFrames(ForcedShortcut(req), req.model))
               ELSE Response("json", 200,
                             Body("completion", req.model, "assistant", None,
                                  ForcedShortcut(req), "tool_calls", TRUE), <<>>)
  /\ src' = "rule_shortcut"
  /\ ctx' = Context(req.model, req.stream, <<>>, None)
  /\ pc' = "done"
  /\ UNCHANGED <<req, out, calls, ans>>
  /\ ConvVarsUnchanged

\* the messages of a direct route put through the steps of the local route
DirectMessagesNormalised(data) == LocalMessages(data)

\* the messages of a direct route: DIRECT_OVERRIDE goes to the end of the text
\* of the first system/developer message, when it has a text
DirectMessages(data) ==
  LET sys == {k \in 1..Len(data.messages) : IsSystem(data.messages[k])}
  IN  [k \in 1..Len(data.messages) |->
         IF sys # {} /\ k = Min(sys) /\ data.messages[k].content # None
           THEN [data.messages[k] EXCEPT !.content = @ \o DIRECT_OVERRIDE]
           ELSE data.messages[k]]

\* the request goes to a direct route
DoPostDirect ==
  /\ pc = "recv" /\ req.valid
  /\ ForcedShortcut(req) = <<>>
  /\ req.model \in DOMAIN DIRECT_ROUTES
  /\ out' = Outbound("direct", DIRECT_ROUTES[req.model].actual_model,
                     ForcedStream(req), DirectMessages(req),
                     req.tools, req.params \ DIRECT_ROUTES[req.model].strip_params)
  /\ ctx' = Context(req.model, req.stream, <<>>, None)
  /\ calls' = calls + 1
  /\ pc' = "wait_direct"
  /\ UNCHANGED <<req, ans, resp, src>>
  /\ ConvVarsUnchanged

\* the request goes to the local backend
DoPostLocal ==
  /\ pc = "recv" /\ req.valid
  /\ ForcedShortcut(req) = <<>>
  /\ req.model \notin DOMAIN DIRECT_ROUTES
  /\ \E msgs \in {LocalMessages(req)} :
       \E last_user_text \in {LastUserText(msgs)} :
         \E results \in (IF last_user_text # None /\ last_user_text # <<>>
                            /\ needs_web_search(last_user_text)
                         THEN BOOLEAN ELSE {FALSE}) :
           /\ out' = Outbound("local",
                              IF req.model \in DOMAIN MODEL_MAP THEN MODEL_MAP[req.model]
                              ELSE req.model,
                              ForcedStream(req),
                              IF results THEN InsertSearch(msgs) ELSE msgs,
                              <<>>, req.params \ UNSUPPORTED_PARAMS)
           /\ ctx' = Context(req.model, req.stream, req.tools, last_user_text)
  /\ calls' = calls + 1
  /\ pc' = "wait_local"
  /\ UNCHANGED <<req, ans, resp, src>>
  /\ ConvVarsUnchanged

\* the local backend answers a: the rest of _proxy
ProxyAnswered(a) ==
  /\ pc = "wait_local"
  /\ ans' = a
  /\ resp' = ProxyResponse(a, ctx)
  /\ src' = ProxyData(a, ctx).src
  /\ pc' = "done"
  /\ UNCHANGED <<req, ctx, out, calls>>
  /\ ConvVarsUnchanged

\* the call of the local backend raises (refused, timeout)
ProxyFail ==
  /\ pc = "wait_local"
  /\ resp' = ProxyError
  /\ pc' = "done"
  /\ UNCHANGED <<req, ctx, out, calls, ans, src>>
  /\ ConvVarsUnchanged

\* the direct backend answers a: the rest of _direct_proxy
DirectAnswered(a) ==
  /\ pc = "wait_direct"
  /\ ans' = a
  /\ resp' = DirectResponse(a, ctx)
  /\ src' = "backend"
  /\ pc' = "done"
  /\ UNCHANGED <<req, ctx, out, calls>>
  /\ ConvVarsUnchanged

\* the call of the direct backend raises
DirectFail ==
  /\ pc = "wait_direct"
  /\ resp' = ProxyError
  /\ pc' = "done"
  /\ UNCHANGED <<req, ctx, out, calls, ans, src>>
  /\ ConvVarsUnchanged

ProxyRespond == \E a \in LocalAnswers(out.model) : ProxyAnswered(a)

DirectRespond == \E a \in DirectAnswers(out.model) : DirectAnswered(a)

\* the module-level tables that every handler thread reads
Tables ==
  [MODEL_MAP |-> MODEL_MAP, REVERSE_MAP |-> REVERSE_MAP, DIRECT_ROUTES |-> DIRECT_ROUTES,
   UNSUPPORTED_PARAMS |-> UNSUPPORTED_PARAMS]

\* the locals of the handler thread tid while another thread runs
Thread(tid, at, data, context, sent, n, a, r, source) ==
  [tid |-> tid, pc |-> at, req |-> data, ctx |-> context, out |-> sent, calls |-> n,
   ans |-> a, resp |-> r, src |-> source]

\* no second thread
NoPeer == Thread(0, "none", BadRequest, NoContext, NoOutbound, 0, NoAnswer, NoResponse, "none")

\* the state of a handler that has read nothing yet
Fresh ==
  /\ pc = "recv"
  /\ ctx = NoContext
  /\ out = NoOutbound
  /\ calls = 0
  /\ ans = NoAnswer
  /\ resp = NoResponse
  /\ src = "none"
  /\ content = <<>> /\ tool_defs = <<>> /\ converted = NoConversion
  /\ peer = NoPeer /\ tables = Tables

Init == Fresh /\ req \in Requests

Next ==
  \/ DoPostParseError
  \/ DoPostShortcut
  \/ DoPostDirect
  \/ DoPostLocal
  \/ ProxyRespond
  \/ ProxyFail
  \/ DirectRespond
  \/ DirectFail

Spec == Init /\ [][Next]_vars

-----------------------------------------------------------------------------
(* The local route alone, on histories long enough to be trimmed *)

TrimKinds ==
  { <<"system", <<"be", "sp", "nice">>, FALSE, <<>>>>,
    <<"developer", <<"rules">>, FALSE, <<>>>>,
    <<"user", <<"hello">>, FALSE, <<>>>>,
    <<"assistant", <<"ok">>, FALSE, <<>>>> }

InitTrim ==
  /\ Fresh
  /\ req \in {Request(TRUE, "gpt-5.2", FALSE, ms, ts, {"temperature", "store"}) :
                ms \in MessageLists(TrimKinds, MaxHist), ts \in {<<>>, <<ExecTool>>}}

NextTrim == DoPostLocal

SpecTrim == InitTrim /\ [][NextTrim]_vars

-----------------------------------------------------------------------------
(* The local route alone, for every client id of the alias table *)

InitAlias ==
  /\ Fresh
  /\ req \in {Request(TRUE, m, st, <<Msg(1, "user", <<"hello">>, FALSE, <<>>)>>, ts,
                      {"temperature", "store"}) :
                m \in DOMAIN MODEL_MAP, st \in BOOLEAN, ts \in {<<>>, <<ExecTool>>}}

NextAlias ==
  \/ DoPostLocal
  \/ ProxyRespond
  \/ ProxyFail

SpecAlias == InitAlias /\ [][NextAlias]_vars

-----------------------------------------------------------------------------
(* Streaming of long texts: one token stands for one character *)

Letters == <<"a", "b", "c", "d", "e", "f", "g">>

LongTexts == {[k \in 1..L |-> Letters[(k % Len(Letters)) + 1]] : L \in 0..MaxContentLen}

InitStream ==
  /\ Fresh
  /\ req \in {Request(TRUE, m, TRUE, <<Msg(1, "user", <<"hello">>, FALSE, <<>>)>>, <<>>,
                      {"temperature"}) : m \in {"gpt-5.2", "deepseek-v3"}}

ProxyRespondLong == \E a \in Completions(out.model, LongTexts) : ProxyAnswered(a)

DirectRespondLong == \E a \in Completions(out.model, LongTexts) : DirectAnswered(a)

NextStream ==
  \/ DoPostDirect
  \/ DoPostLocal
  \/ ProxyRespondLong
  \/ DirectRespondLong

SpecStream == InitStream /\ [][NextStream]_vars

-----------------------------------------------------------------------------
(* convert_text_to_tool_calls alone, on texts made of whole lines and of
   fenced blocks *)

ExecBare == Tool("function", "exec", <<>>)

ConvToolSets == {<<ExecTool>>, <<GrepTool>>, <<ExecTool, GrepTool>>, <<ExecBare>>}

ConvLines ==
  { <<"hello">>,
    <<"TOOL_CALL:", "sp", "exec", "sp", "foo", "sp", "bar">>,
    <<"TOOL_CALL:", "exec", "sp", "sp", "ls", "sp">>,
    <<"TOOL_CALL:", "sp", "grep", "sp", "/x">>,
    <<"TOOL_CALL:", "sp", "exec">>,
    <<"exec", "sp", "ls">>,
    <<"fence", "nl", "exec", "sp", "pwd", "nl", "fence">>,
    <<>> }

RECURSIVE JoinLines(_)
JoinLines(ls) ==
  IF ls = <<>> THEN <<>>
  ELSE IF Len(ls) = 1 THEN ls[1]
  ELSE ls[1] \o <<"nl">> \o JoinLines(Tail(ls))

ConvTexts == {JoinLines(ls) : ls \in SeqsUpTo(ConvLines, MaxLines)}

InitConv ==
  /\ pc = "conv"
  /\ content \in ConvTexts
  /\ tool_defs \in ConvToolSets
  /\ converted = NoConversion
  /\ req = BadRequest
  /\ ctx = NoContext
  /\ out = NoOutbound
  /\ calls = 0
  /\ ans = NoAnswer
  /\ resp = NoResponse
  /\ src = "none"
  /\ peer = NoPeer /\ tables = Tables

\* one call of convert_text_to_tool_calls(content, tool_defs)
Convert ==
  /\ pc = "conv"
  /\ converted' = convert_text_to_tool_calls(content, tool_defs)
  /\ pc' = "converted"
  /\ UNCHANGED <<req, ctx, out, calls, ans, resp, src, content, tool_defs, peer, tables>>

NextConv == Convert

SpecConv == InitConv /\ [][NextConv]_vars

-----------------------------------------------------------------------------
(* The normalisation of do_POST alone: long histories with tool turns, and
   short ones with every form of system content and a text that asks for a
   web search *)

MaxNorm == 3

CleanKinds ==
  { <<"system", <<"be", "sp", "nice">>, FALSE, <<>>>>,
    <<"user", <<"hello">>, FALSE, <<>>>>,
    <<"assistant", None, TRUE, <<>>>>,
    <<"tool", <<"[", "ok", "]", "sp", "skills">>, FALSE, <<"exec">>>> }

NormKinds ==
  { <<"system", <<"be", "sp", "nice">>, FALSE, <<>>>>,
    <<"developer", None, FALSE, <<>>>>,
    <<"user", <<"hello">>, FALSE, <<>>>>,
    <<"user", <<"latest", "sp", "news">>, FALSE, <<>>>>,
    <<"assistant", <<"ok">>, FALSE, <<>>>> }

\* the same messages with the content of the system messages as a list of parts
AsParts(ms) ==
  [k \in 1..Len(ms) |-> IF IsSystem(ms[k]) THEN [ms[k] EXCEPT !.parts = TRUE] ELSE ms[k]]

NormRequests ==
  {Request(TRUE, "gpt-5.2", FALSE, ms, ts, {"temperature", "tools"}) :
     ms \in MessageLists(CleanKinds, MaxHist), ts \in {<<>>, <<ExecTool>>}}
  \cup {Request(TRUE, "gpt-5.2", FALSE, ms2, ts, {"temperature", "tools"}) :
          ms2 \in UNION {{ms, AsParts(ms)} : ms \in MessageLists(NormKinds, MaxNorm)},
          ts \in {<<>>, <<ExecTool>>}}
  \cup {[Request(TRUE, "gpt-5.2", FALSE, <<>>, ts, {"temperature", "tools"})
           EXCEPT !.has_messages = FALSE] : ts \in {<<>>, <<ExecTool>>}}

InitNorm == Fresh /\ req \in NormRequests

NextNorm == DoPostLocal

SpecNorm == InitNorm /\ [][NextNorm]_vars

-----------------------------------------------------------------------------
(* The preparation of a direct-route request alone, on the histories of the
   normalisation and with every parameter that one route or the other strips *)

DirectParams == {"temperature", "store", "metadata", "tools", "tool_choice", "thinking"}

InitDirect ==
  /\ Fresh
  /\ req \in {[r EXCEPT !.model = m, !.params = DirectParams] :
                r \in NormRequests, m \in DOMAIN DIRECT_ROUTES}

NextDirect == DoPostDirect

SpecDirect == InitDirect /\ [][NextDirect]_vars

-----------------------------------------------------------------------------
(* Two requests handled on two threads of ThreadedHTTPServer: one runs, the
   other one's locals wait in peer; the threads are switched at any step *)

PairRequests ==
  { BadRequest,
    Request(TRUE, "gpt-5.2", FALSE, <<Msg(1, "user", <<"hello">>, FALSE, <<>>)>>,
            <<ExecTool>>, {"temperature", "store"}),
    Request(TRUE, "gpt-5-mini", TRUE,
            <<Msg(1, "system", <<"be", "sp", "nice">>, FALSE, <<>>),
              Msg(2, "user", <<"latest", "sp", "news">>, FALSE, <<>>)>>,
            <<>>, {"temperature", "store"}),
    Request(TRUE, "deepseek-v3", TRUE, <<Msg(1, "user", <<"hello">>, FALSE, <<>>)>>,
            <<>>, {"temperature", "store"}),
    Request(TRUE, "gpt-5.2", TRUE, <<Msg(1, "user", <<"next">>, FALSE, <<>>)>>,
            <<ExecTool>>, {"temperature", "store"}) }

InitPair ==
  /\ pc = "recv" /\ req \in PairRequests
  /\ ctx = NoContext /\ out = NoOutbound /\ calls = 0
  /\ ans = NoAnswer /\ resp = NoResponse /\ src = "none"
  /\ content = <<>> /\ tool_defs = <<>> /\ converted = NoConversion
  /\ peer \in {Thread(2, "recv", r, NoContext, NoOutbound, 0, NoAnswer, NoResponse, "none") :
                 r \in PairRequests}
  /\ tables = Tables

\* the arguments of _proxy kept in one slot of the module instead of on the
\* stack of the thread: a thread that resumes reads what was written last
SharedContextSlot(p) == ctx

\* client_wants_stream, original_model, tool_defs and last_user_text are
\* locals of do_POST and arguments of _proxy: a thread that resumes has its own
ResumedContext(p) == p.ctx

\* the running thread is suspended and the other one resumes
Switch ==
  /\ peer.tid # 0
  /\ peer' = Thread(3 - peer.tid, pc, req, ctx, out, calls, ans, resp, src)
  /\ pc' = peer.pc
  /\ req' = peer.req
  /\ ctx' = ResumedContext(peer)
  /\ out' = peer.out
  /\ calls' = peer.calls
  /\ ans' = peer.ans
  /\ resp' = peer.resp
  /\ src' = peer.src
  /\ UNCHANGED <<content, tool_defs, converted, tables>>

NextPair ==
  \/ DoPostParseError
  \/ DoPostShortcut
  \/ DoPostDirect
  \/ DoPostLocal
  \/ ProxyRespond
  \/ ProxyFail
  \/ DirectRespond
  \/ DirectFail
  \/ Switch

SpecPair == InitPair /\ [][NextPair]_vars

-----------------------------------------------------------------------------
(* Reading a response the way a client does *)

RECURSIVE Concat(_)
Concat(ss) == IF ss = <<>> THEN <<>> ELSE Head(ss) \o Concat(Tail(ss))

\* the positions of the frames of a stream
EventIdx(r) == 1..Len(r.events)

ContentEvents(r) == {k \in EventIdx(r) : "content" \in r.events[k].delta}

ToolCallEvents(r) == {k \in EventIdx(r) : "tool_calls" \in r.events[k].delta}

RoleEvents(r) == {k \in EventIdx(r) : "role" \in r.events[k].delta}

DoneEvents(r) == {k \in EventIdx(r) : r.events[k].done}

\* the events that carry a finish reason
TerminalEvents(r) ==
  {k \in EventIdx(r) : ~r.events[k].done /\ r.events[k].finish # "null"}

\* the content payloads of the stream, joined in emission order
StreamedContent(r) ==
  Concat([k \in EventIdx(r) |->
            IF "content" \in r.events[k].delta THEN r.events[k].content ELSE <<>>])

\* the tool-call deltas of the stream, in emission order
StreamedCalls(r) ==
  Concat([k \in EventIdx(r) |->
            IF "tool_calls" \in r.events[k].delta THEN r.events[k].tool_calls ELSE <<>>])

\* message content of a unary body, null counted as empty text
UnaryContent(r) == IF r.body.content = None THEN <<>> ELSE r.body.content

\* the response the same backend answer gives a client that asked stream=false
UnaryTwin ==
  IF out.route = "local"
    THEN ProxyResponse(ans, [ctx EXCEPT !.client_wants_stream = FALSE])
  ELSE IF out.route = "direct"
    THEN DirectResponse(ans, [ctx EXCEPT !.client_wants_stream = FALSE])
  ELSE Response("json", 200,
                Body("completion", req.model, "assistant", None,
                     ForcedShortcut(req), "tool_calls", TRUE), <<>>)

Streamed == pc = "done" /\ resp.kind = "sse"

Answered == pc = "done" /\ ans # NoAnswer

\* the newest non-system turn of the request is a tool result or an assistant
\* turn that carries tool_calls
NewestTurnIsToolEcho ==
  LET turns == {k \in 1..Len(req.messages) : req.messages[k].role \notin {"system", "developer"}}
  IN  /\ req.valid
      /\ turns # {}
      /\ \/ req.messages[Max(turns)].role = "tool"
         \/ req.messages[Max(turns)].role = "assistant" /\ req.messages[Max(turns)].tool_calls

\* the tool calls and the content the client receives, stream or not
DeliveredCalls ==
  IF resp.kind = "sse" THEN [k \in 1..Len(StreamedCalls(resp)) |->
                               ToolCall(StreamedCalls(resp)[k].id, StreamedCalls(resp)[k].name,
                                        StreamedCalls(resp)[k].arguments)]
  ELSE MsgToolCalls(resp.body)

-----------------------------------------------------------------------------
(* C1 *)

\* C1: on the local and on the direct route, the content payloads of the
\* events streamed to a client, joined in emission order, are the message
\* content of the unary response to the same backend answer (null counted as
\* empty), also when the final message carries tool calls together with text.
C1_StreamedContentIsUnaryContent ==
  (Streamed /\ Answered /\ out.route \in {"local", "direct"})
    => StreamedContent(resp) = UnaryContent(UnaryTwin)

-----------------------------------------------------------------------------
(* C2 *)

\* C2: when the newest non-system turn of the request is a tool result or an
\* assistant turn with tool_calls, the response carries no ToolCall made by a
\* command rule: neither the shortcut of do_POST nor the injection of _proxy
\* fires.
C2_NoCommandRuleOnToolEcho ==
  (pc = "done" /\ NewestTurnIsToolEcho) => src \notin {"rule_shortcut", "rule_inject"}

-----------------------------------------------------------------------------
(* C3 *)

-----------------------------------------------------------------------------
(* C4 *)

IsSystemRole(m) == m.role \in {"system", "developer"}

IsOtherRole(m) == m.role \notin {"system", "developer"}

IdsOf(ms) == [k \in 1..Len(ms) |-> ms[k].id]

\* the last n elements of s, all of them when it has no more than n
LastN(s, n) == IF Len(s) <= n THEN s ELSE SubSeq(s, Len(s) - n + 1, Len(s))

\* the messages of the request that the proxy sent on, without the ones it
\* made itself (id 0: the tool prompt, the search results)
SentOn == SelectSeq(out.messages, LAMBDA m : m.id # 0)

\* C4: on the local route, of a request with k system/developer messages and m
\* others, the list sent on after trimming holds all k system/developer
\* messages and exactly the last min(m, 4) others, in their order: the oldest
\* conversation messages are dropped, none when m <= 4.
C4_TrimKeepsSystemAndLastFour ==
  (pc = "wait_local") =>
    LET system == SelectSeq(req.messages, IsSystemRole)
        others == SelectSeq(req.messages, IsOtherRole)
    IN  /\ IdsOf(SelectSeq(SentOn, IsSystemRole)) = IdsOf(system)
        /\ IdsOf(SelectSeq(out.messages, IsOtherRole)) = IdsOf(LastN(others, 4))
        /\ Len(others) <= 4 => IdsOf(SentOn) = IdsOf(system) \o IdsOf(others)
        /\ \A k \in 1..Len(SentOn) :
             SentOn[k].role = req.messages[SentOn[k].id].role

\* a request with one system message and five others has been trimmed
C4_Witness ==
  /\ pc = "wait_local"
  /\ Len(SelectSeq(req.messages, IsSystemRole)) = 1
  /\ Len(SelectSeq(req.messages, IsOtherRole)) = 5
  /\ req.messages[1].role = "user"
  /\ Len(SelectSeq(out.messages, IsOtherRole)) = 4

-----------------------------------------------------------------------------
(* C5 *)

Occurs(x, t) == t # None /\ \E k \in 1..Len(t) : t[k] = x

\* the model fields of the response the client receives
DeliveredModels ==
  IF resp.kind = "sse"
    THEN {resp.events[k].model : k \in {j \in 1..Len(resp.events) : ~resp.events[j].done}}
    ELSE {resp.body.model}

\* the text of the response the client receives
DeliveredContent == IF resp.kind = "sse" THEN StreamedContent(resp) ELSE UnaryContent(resp)

\* C5: on the local route, for every client id X of the alias table the
\* request goes to the backend as MODEL_MAP[X]; in what the client receives
\* the model field and every place of the text where the backend wrote that
\* id read X, and the backend id occurs nowhere.
C5_ModelNameRoundTrip ==
  LET X == req.model
      B == MODEL_MAP[X]
  IN  /\ (pc \in {"wait_local", "done"}) => out.model = B
      /\ (pc = "done" /\ Answered) =>
           /\ B \notin DeliveredModels
           /\ ans.body.model = B /\ ans.body.kind = "completion" => DeliveredModels = {X}
           /\ ~Occurs(B, DeliveredContent)
           /\ \A k \in 1..Len(DeliveredCalls) :
                \A j \in 1..Len(DeliveredCalls[k].arguments) :
                  ~Occurs(B, DeliveredCalls[k].arguments[j][2])
           /\ (src = "backend" /\ ~IsNoReply(ans.body.content) /\ ans.body.content # None)
                => /\ Len(DeliveredContent) = Len(ans.body.content)
                   /\ \A k \in 1..Len(DeliveredContent) :
                        DeliveredContent[k] =
                          IF ans.body.content[k] \in {MODEL_MAP[y] : y \in DOMAIN MODEL_MAP}
                            THEN X ELSE ans.body.content[k]

\* the backend named itself in the model field and in the text, and the
\* client reads its own id in both
C5_Witness ==
  /\ pc = "done" /\ Answered /\ resp.kind = "json"
  /\ req.model = "gpt-5.1-codex"
  /\ ans.body.model = "qwen2.5-coder:32b"
  /\ Occurs("qwen2.5-coder:32b", ans.body.content)
  /\ resp.body.model = "gpt-5.1-codex"
  /\ Occurs("gpt-5.1-codex", resp.body.content)

-----------------------------------------------------------------------------
(* C6 *)

\* the lines of a text, the newlines left out
RECURSIVE SplitLines(_)
SplitLines(t) ==
  LET nls == {k \in 1..Len(t) : t[k] = "nl"}
  IN  IF nls = {} THEN <<t>>
      ELSE <<SubSeq(t, 1, Min(nls) - 1)>> \o SplitLines(SubSeq(t, Min(nls) + 1, Len(t)))

\* the first token of line at or after j that is not a blank
PastBlanks(line, j) ==
  Min({k \in j..(Len(line) + 1) : k = Len(line) + 1 \/ line[k] # "sp"})

\* a marker line reads TOOL_CALL: <name> <args>: the marker, a name, at least
\* one blank, and arguments that are not blank
IsMarkerLine(line) ==
  /\ Len(line) >= 1 /\ line[1] = "TOOL_CALL:"
  /\ LET n == PastBlanks(line, 2)
     IN  /\ n <= Len(line) /\ IsWord(line[n])
         /\ n + 1 <= Len(line) /\ line[n + 1] = "sp"
         /\ PastBlanks(line, n + 1) <= Len(line)

MarkerName(line) == line[PastBlanks(line, 2)]

MarkerArgs(line) == Strip(SubSeq(line, PastBlanks(line, 2) + 1, Len(line)))

\* the first declared parameter of the tool, 'input' when it declares none
FirstParam(defs, name) ==
  LET d == defs[CHOOSE k \in 1..Len(defs) : defs[k].name = name]
  IN  IF d.props = <<>> THEN "input" ELSE d.props[1]

NameAndArguments(tcs) ==
  [k \in 1..Len(tcs) |-> [name |-> tcs[k].name, arguments |-> tcs[k].arguments]]

NotBlank(line) == Strip(line) # <<>>

StrippedLines(ls) == [k \in 1..Len(ls) |-> Strip(ls[k])]

\* C6: for a text with marker lines 'TOOL_CALL: <name> <args>' that all name
\* registered tools, convert_text_to_tool_calls returns one ToolCall per
\* marker line, in text order, with that name and one argument: the tool's
\* first declared parameter (or 'input') bound to the rest of the line
\* trimmed; the cleaned content is the text without the marker lines (blank
\* lines and outer blanks are not counted).
C6_OneCallPerMarkerLine ==
  (pc = "converted") =>
    LET lines == SplitLines(content)
        markers == SelectSeq(lines, IsMarkerLine)
        rest == SelectSeq(lines, LAMBDA l : ~IsMarkerLine(l))
        registered == {tool_defs[k].name : k \in 1..Len(tool_defs)}
    IN  (markers # <<>> /\ \A k \in 1..Len(markers) : MarkerName(markers[k]) \in registered)
          => /\ NameAndArguments(converted.tool_calls) =
                  [k \in 1..Len(markers) |->
                     [name |-> MarkerName(markers[k]),
                      arguments |-> <<<<FirstParam(tool_defs, MarkerName(markers[k])),
                                        MarkerArgs(markers[k])>>>>]]
             /\ SelectSeq(StrippedLines(SplitLines(converted.cleaned)), NotBlank) =
                  SelectSeq(StrippedLines(rest), NotBlank)

-----------------------------------------------------------------------------
(* C7 *)

\* C7: a streamed response without tool calls and with content of length L
\* has, after the role announcement, exactly max(1, ceil(L/100)) content-delta
\* events, each of at most 100 characters and all but the last of exactly
\* 100, in order, which joined are the content; then one terminal event and
\* the end marker.  For L <= 100 the one content-delta event holds the whole
\* text.
C7_ContentDeltaCount ==
  (Streamed /\ Answered /\ MsgToolCalls(UnaryTwin.body) = <<>>) =>
    LET text == UnaryContent(UnaryTwin)
        L == Len(text)
        n == IF L = 0 THEN 1 ELSE (L + 99) \div 100
        e == resp.events
    IN  /\ Len(e) = n + 3
        /\ "role" \in e[1].delta /\ e[1].content = <<>>
        /\ ContentEvents(resp) \ {1} = 2..(n + 1)
        /\ \A k \in 2..(n + 1) :
             /\ e[k].delta = {"content"}
             /\ Len(e[k].content) <= 100
             /\ k < n + 1 => Len(e[k].content) = 100
        /\ StreamedContent(resp) = text
        /\ e[n + 2].delta = {} /\ ~e[n + 2].done /\ e[n + 2].finish # "null"
        /\ e[n + 3].done
        /\ L <= 100 => n = 1 /\ e[2].content = text

\* a text of 201 characters went out in three content-delta events
C7_Witness ==
  /\ Streamed /\ Answered
  /\ Len(MsgContent(ans.body)) = 201
  /\ Cardinality(ContentEvents(resp) \ {1}) = 3
  /\ Len(resp.events[4].content) = 1

-----------------------------------------------------------------------------
(* C8 *)

\* C8: a streamed response whose final message carries n >= 1 tool calls has
\* exactly n tool-call-delta events, each with one delta; the i-th (from 0)
\* has index i and the id, the name and the whole arguments of the i-th call,
\* so the deltas read in order are the call list of the unary response.  On
\* the shortcut, the local and the direct path.
C8_ToolCallDeltasRebuildCalls ==
  Streamed =>
    LET final == MsgToolCalls(UnaryTwin.body)
        n == Len(final)
    IN  n >= 1 =>
          /\ Cardinality(ToolCallEvents(resp)) = n
          /\ \A k \in ToolCallEvents(resp) : Len(resp.events[k].tool_calls) = 1
          /\ Len(StreamedCalls(resp)) = n
          /\ \A i \in 1..n :
               StreamedCalls(resp)[i] =
                 [index |-> i - 1, id |-> final[i].id, name |-> final[i].name,
                  arguments |-> final[i].arguments]
          /\ DeliveredCalls = final

\* a stream of the local route that carries two tool calls
C8_Witness ==
  /\ Streamed /\ out.route = "local"
  /\ Len(MsgToolCalls(UnaryTwin.body)) = 2
  /\ Cardinality(ToolCallEvents(resp)) = 2

-----------------------------------------------------------------------------
(* C9 *)

\* C9: in every streamed response, on every path, the role is announced once
\* and in the first event; every content-delta or tool-call-delta event comes
\* before the terminal event; there is exactly one terminal event and it
\* carries a non-null finish reason; the end-of-stream marker occurs once and
\* is the last frame.
C9_FramesAreOrdered ==
  Streamed =>
    /\ RoleEvents(resp) = {1}
    /\ Cardinality(TerminalEvents(resp)) = 1
    /\ \A t \in TerminalEvents(resp) :
         \A k \in ContentEvents(resp) \cup ToolCallEvents(resp) : k < t
    /\ DoneEvents(resp) = {Len(resp.events)}

-----------------------------------------------------------------------------
(* C10 *)

\* the fields of one event: the keys of its delta, whether it carries a
\* finish reason, whether it carries usage
EventShape(e) ==
  [done |-> e.done, delta |-> e.delta, finish |-> e.finish # "null", usage |-> e.usage]

EventShapes(events) == [k \in 1..Len(events) |-> EventShape(events[k])]

\* C10: for the same list of tool calls the events streamed by the shortcut
\* have the shape of those streamed for a backend-derived tool-call response:
\* as many events, the same fields in each, and a terminal event with both the
\* finish reason and the usage accounting.
C10_ShortcutStreamShape ==
  (Streamed /\ src = "rule_shortcut") =>
    /\ EventShapes(resp.events) =
         EventShapes(ProxyFrames(Body("completion", req.model, "assistant", None,
                                      ForcedShortcut(req), "tool_calls", TRUE),
                                 req.model))
    /\ \A t \in TerminalEvents(resp) : resp.events[t].usage

-----------------------------------------------------------------------------
(* C11: a body that is not JSON *)

\* the request body was rejected by json.loads and the handler has moved on
MalformedHandled == ~req.valid /\ pc # "recv"

\* C11: when the body of a POST request is not valid JSON the handling does
\* not abort: it goes on with the default model id 'gpt-5.2', no messages and
\* no tools, the request is still forwarded to the backend, and the client
\* receives a response.
C11_MalformedBodyStillForwarded ==
  MalformedHandled =>
    /\ pc # "crashed"
    /\ calls = 1
    /\ ctx = Context("gpt-5.2", FALSE, <<>>, None)
    /\ (pc = "done" => resp.kind # "none")

-----------------------------------------------------------------------------
(* C12: the backend call fails *)

\* the request reached a backend and the call raised before an answer was read
BackendFailed == pc = "done" /\ out.route \in {"local", "direct"} /\ ans = NoAnswer

\* C12: when the backend call fails, on the local or on the direct route, the
\* backend was contacted exactly once for the request and the client receives
\* exactly one response, status 502 with a JSON error object: never a success
\* and never an empty answer; a response once written is never replaced.
C12_BackendFailureIsOne502 ==
  /\ [](BackendFailed =>
          /\ calls = 1
          /\ resp.kind = "json" /\ resp.status = 502
          /\ resp.body.kind = "proxy_error")
  /\ [][resp # NoResponse => resp' = resp /\ calls' = calls]_vars

\* both routes fail, for a unary and for a streaming client
C12_Witness ==
  /\ BackendFailed
  /\ out.route = "direct" /\ ctx.client_wants_stream
  /\ resp.status = 502

-----------------------------------------------------------------------------
(* C13, C14: synthesised tool calls and the tools the request declares *)

\* the tool calls of the response were made by the proxy, not by the backend
Synthesised == pc = "done" /\ src \in {"rule_shortcut", "rule_inject", "extract"}

\* the names of the function tools the request declares
DeclaredNames == IF req.valid THEN KnownTools(req.tools) ELSE {}

\* C13: every ToolCall the proxy synthesises into a response, by extraction
\* from text or by a command rule, carries the name of a function tool that
\* the tools list of the same request declares, and a request with an empty
\* or absent tools list never gets a synthesised ToolCall.
C13_SynthesisedCallsAreDeclared ==
  Synthesised =>
    /\ \A k \in 1..Len(DeliveredCalls) : DeliveredCalls[k].name \in DeclaredNames
    /\ req.tools # <<>>

\* a command rule matches the user text of the request
CommandRuleMatches ==
  /\ req.valid
  /\ LET w == WalkUser(req.messages, Len(req.messages), None)
     IN  /\ w.found /\ w.txt # <<>>
         /\ fallback_tool_call(w.txt, SyntheticExec, w.chat) # <<>>

\* C14: if the tools list of the request declares no function tool named
\* exec, the empty and the absent list included, a command-rule match on the
\* user text produces no shortcut response: the request goes down the normal
\* backend path and the backend is called.
C14_NoExecNoShortcut ==
  (pc # "recv" /\ CommandRuleMatches /\ "exec" \notin DeclaredNames)
    => /\ src # "rule_shortcut"
       /\ calls = 1

-----------------------------------------------------------------------------
(* C15: the NO_REPLY sentinel *)

\* the backend answered with the sentinel as its whole content
BackendSaidNoReply ==
  Answered /\ ans.body.kind = "completion" /\ IsNoReply(ans.body.content)

\* C15: for every POST request, on the local and on the direct route, for
\* unary and for streaming clients, if the content of the backend's answer is
\* the sentinel NO_REPLY (case and outer whitespace ignored), the content
\* delivered to the client is the conversational fallback text and never the
\* sentinel (a response whose tool calls the proxy put in may carry no text).
C15_NoReplyNeverSurfaces ==
  (BackendSaidNoReply /\ out.route \in {"local", "direct"})
    => /\ ~IsNoReply(DeliveredContent)
       /\ src = "backend" => DeliveredContent = NO_REPLY_FALLBACK

-----------------------------------------------------------------------------
(* C16: a body that cannot be turned into events *)

\* the body is not JSON, its choices list has no element, or one of its tool
\* calls lacks the key id or the key function
Unconvertible(b) ==
  \/ b.kind \in {"garbage", "no_choices"}
  \/ /\ b.kind = "completion"
     /\ \E k \in 1..Len(b.tool_calls) : b.tool_calls[k].id = None \/ b.tool_calls[k].name = "absent"

\* the body the handler holds when it comes to the streaming branch
StreamSource == IF out.route = "local" THEN ProxyData(ans, ctx).body ELSE ans.body

-----------------------------------------------------------------------------
(* C17: the three strategies of the converter *)

\* what each strategy yields on the text by itself; the fenced-block and the
\* bare-line strategy need a registered tool named exec
MarkerYield == MarkerCalls(ToolCallScan(content, 1), tool_defs, 1)

FencedYield ==
  IF "exec" \in KnownTools(tool_defs)
    THEN MarkdownCalls(MarkdownExecScan(content, 1), tool_defs) ELSE <<>>

BareYield ==
  IF "exec" \in KnownTools(tool_defs)
    THEN BareCalls(BareExecScan(content, 1), tool_defs) ELSE <<>>

\* the strategy a call comes from, read off its id
StrategyOf(tc) ==
  IF tc.id[2] = "exec_md" THEN "fenced" ELSE IF tc.id[2] = "exec_bare" THEN "bare" ELSE "marker"

\* C17: convert_text_to_tool_calls tries the marker lines, then an exec command
\* in a fenced block, then a bare exec line, and returns the calls of the first
\* strategy that yields at least one ToolCall; all the calls of a result come
\* from one strategy, and the second and third are tried only when the
\* registry declares a tool named exec.
C17_FirstStrategyWins ==
  (pc = "converted") =>
    /\ converted.tool_calls =
         IF MarkerYield # <<>> THEN MarkerYield
         ELSE IF FencedYield # <<>> THEN FencedYield
         ELSE BareYield
    /\ Cardinality({StrategyOf(converted.tool_calls[k]) : k \in 1..Len(converted.tool_calls)}) <= 1
    /\ "exec" \notin KnownTools(tool_defs)
         => \A k \in 1..Len(converted.tool_calls) :
              StrategyOf(converted.tool_calls[k]) = "marker"

\* a text with a fenced exec block, whose exec line the bare-line pattern
\* matches too, and no marker line that yields a call: the fenced block wins
C17_Witness ==
  /\ pc = "converted"
  /\ MarkerYield = <<>> /\ FencedYield # <<>> /\ BareYield # <<>>
  /\ converted.tool_calls = FencedYield
  /\ FencedYield # BareYield

-----------------------------------------------------------------------------
(* C18: marker lines that name unknown tools *)

\* the line carries the marker and a tool name after it
NamesTool(line) ==
  /\ Len(line) >= 1 /\ line[1] = "TOOL_CALL:"
  /\ PastBlanks(line, 2) <= Len(line) /\ IsWord(line[PastBlanks(line, 2)])

\* the marker lines that name a tool absent from the registry, and those that
\* name a registered one
UnknownToolLines ==
  SelectSeq(SplitLines(content),
            LAMBDA l : NamesTool(l) /\ MarkerName(l) \notin KnownTools(tool_defs))

KnownToolLines ==
  SelectSeq(SplitLines(content),
            LAMBDA l : NamesTool(l) /\ MarkerName(l) \in KnownTools(tool_defs))

\* the calls due to the marker lines 'TOOL_CALL: <name> <args>' that name a
\* registered tool, in text order
DueCalls ==
  LET ls == SelectSeq(KnownToolLines, IsMarkerLine)
  IN  [k \in 1..Len(ls) |->
         [name |-> MarkerName(ls[k]),
          arguments |-> <<<<FirstParam(tool_defs, MarkerName(ls[k])), MarkerArgs(ls[k])>>>>]]

\* C18: a marker line that names a tool absent from the registry yields no
\* ToolCall and does not stop the extraction: the marker lines of the same
\* text that name registered tools still yield their ToolCalls, in text order,
\* and when no marker line names a registered tool the fenced-block and the
\* bare-line strategy are still tried.
C18_UnknownToolSkipped ==
  (pc = "converted" /\ UnknownToolLines # <<>>)
    => /\ \A k \in 1..Len(converted.tool_calls) :
            StrategyOf(converted.tool_calls[k]) = "marker"
              => converted.tool_calls[k].name \in KnownTools(tool_defs)
       /\ IF KnownToolLines # <<>>
            THEN SelectSeq(NameAndArguments(converted.tool_calls),
                           LAMBDA c : \E k \in 1..Len(DueCalls) : DueCalls[k] = c) = DueCalls
            ELSE converted.tool_calls =
                   IF FencedYield # <<>> THEN FencedYield ELSE BareYield

-----------------------------------------------------------------------------
(* C19: nothing matches *)

\* the body of the backend after the model-name rewriting of its route
RewrittenAnswer ==
  IF out.route = "local" THEN rewrite_model_in_response(ans.body, ctx.original_model)
  ELSE IF ans.body.kind = "garbage" THEN ans.body
  ELSE [ans.body EXCEPT !.model = ctx.original_model]

\* the request declared tools, the backend answered, no command rule matches
\* the user text and no strategy of the converter matches the backend's text
NothingMatches ==
  /\ Answered /\ req.tools # <<>>
  /\ ForcedShortcut(req) = <<>>
  /\ out.route = "local"
       => \/ ctx.last_user_text \in {None, <<>>}
          \/ fallback_tool_call(ctx.last_user_text, req.tools, None) = <<>>
  /\ convert_text_to_tool_calls(MsgContent(RewrittenAnswer), req.tools).tool_calls = <<>>

\* no tool_calls field is added and the finish reason is the backend's
CallsAndFinishKept ==
  /\ DeliveredCalls = MsgToolCalls(ans.body)
  /\ resp.kind = "json" => resp.body.finish = ans.body.finish
  /\ (resp.kind = "sse" /\ ans.body.kind = "completion")
       => \A k \in EventIdx(resp) :
            (~resp.events[k].done /\ resp.events[k].delta = {})
              => resp.events[k].finish = ans.body.finish

\* C19 as stated: when the request declared tools, no command rule matches and
\* no extraction strategy matches the backend's text, the response is left as
\* it is: no tool_calls field is added, the finish reason is not changed, and
\* a unary client receives the backend body, model names rewritten, byte for
\* byte.
C19_ResponseLeftAsIs ==
  NothingMatches
    => /\ CallsAndFinishKept
       /\ ~ctx.client_wants_stream => resp.body = RewrittenAnswer

\* C19 amended: the same, except that on the local route a content that is the
\* bare NO_REPLY sentinel is replaced by the fallback text; every other field
\* of the body is the backend's.
C19_LeftAsIsButNoReply ==
  NothingMatches
    => /\ CallsAndFinishKept
       /\ ~ctx.client_wants_stream
            => resp.body =
                 IF out.route = "local" /\ RewrittenAnswer.kind = "completion"
                    /\ IsNoReply(RewrittenAnswer.content)
                   THEN [RewrittenAnswer EXCEPT !.content = NO_REPLY_FALLBACK]
                   ELSE RewrittenAnswer

\* a unary client of the local route that declared tools gets the text of the
\* backend, in which a model name was rewritten, and no tool call
C19_Witness ==
  /\ NothingMatches /\ out.route = "local" /\ ~ctx.client_wants_stream
  /\ ans.body.kind = "completion" /\ ans.body.content # None
  /\ resp.body.content # ans.body.content
  /\ ~IsNoReply(ans.body.content)
  /\ resp.body.tool_calls = <<>> /\ resp.body.finish = "stop"

-----------------------------------------------------------------------------
(* C20: the stream flag *)

\* a body was sent to a backend
Forwarded == out.route \in {"local", "direct"}

\* the same request with the other stream flag
FlagFlipped == [req EXCEPT !.stream = ~req.stream]

\* C20: every request body the proxy sends to a backend after it parsed the
\* inbound request, on the local and on the direct route, has stream = false
\* whatever the stream flag of the client was; the flag of the client only
\* chooses between the unary and the streaming shape of the response: a
\* stream is written to no client that did not ask for one, and the messages
\* sent on are those the request with the other flag would send.
C20_BackendNeverStreams ==
  /\ Forwarded
       => /\ req.valid /\ out.stream = FALSE
          /\ out.route = "local" /\ out.messages = LocalMessages(req)
               => out.messages = LocalMessages(FlagFlipped)
  /\ (pc = "done" /\ resp.kind = "sse") => req.stream
  /\ (pc = "done" /\ req.valid /\ ~req.stream) => resp.kind = "json"

\* a client that asked for a stream on the direct route: the body sent on has
\* stream = false and the response is a stream
C20_Witness ==
  /\ Forwarded /\ out.route = "direct" /\ req.stream /\ ~out.stream
  /\ pc = "done" /\ resp.kind = "sse"

-----------------------------------------------------------------------------
(* C21: tool turns on the local route *)

\* the conversation turns of the request and of the list sent on
InboundTurns == SelectSeq(req.messages, IsOtherRole)

OutboundTurns == SelectSeq(out.messages, IsOtherRole)

\* the tag the cleaning puts before the content of a tool result
ToolTag(m) ==
  <<"[", "Tool", "sp", "result", "sp", "from", "sp">>
    \o (IF m.name = <<>> THEN <<"tool">> ELSE m.name) \o <<"]", ":", "sp">>

\* C21: after the normalisation of the local route no message sent on has the
\* role tool, and none carries a tool_calls or a tool_call_id field; each
\* role=tool message of the request that survives the trimming is sent on as a
\* user message whose content is the tool's content tagged with the tool name,
\* at the same position among the conversation turns.
C21_ToolTurnsBecomeUserTurns ==
  (out.route = "local") =>
    /\ \A k \in 1..Len(out.messages) :
         /\ out.messages[k].role # "tool"
         /\ ~out.messages[k].tool_calls
         /\ ~out.messages[k].tool_call_id
    /\ Len(OutboundTurns) = Len(LastN(InboundTurns, MAX_HISTORY))
    /\ \A j \in 1..Len(OutboundTurns) :
         LET m == LastN(InboundTurns, MAX_HISTORY)[j]
         IN  m.role = "tool"
               => /\ OutboundTurns[j].role = "user"
                  /\ OutboundTurns[j].content = ToolTag(m) \o m.content

\* a history of six turns, the first a tool result that is trimmed away and
\* the last a tool result that is sent on, after an assistant turn with
\* tool_calls
C21_Witness ==
  /\ out.route = "local"
  /\ Len(InboundTurns) = 6
  /\ InboundTurns[1].role = "tool" /\ InboundTurns[6].role = "tool"
  /\ InboundTurns[5].role = "assistant" /\ InboundTurns[5].tool_calls
  /\ Len(OutboundTurns) = 4 /\ OutboundTurns[4].role = "user"

-----------------------------------------------------------------------------
(* C22: the tool-calling instruction *)

\* the number of places of the text t where the sequence p stands
Occurrences(t, p) ==
  IF t = None THEN 0
  ELSE Cardinality({k \in 1..(Len(t) - Len(p) + 1) : SubSeq(t, k, k + Len(p) - 1) = p})

\* the heading of the instruction text
ToolPromptMark == <<"TOOL_PROMPT">>

RECURSIVE PromptCount(_)
PromptCount(ms) ==
  IF ms = <<>> THEN 0
  ELSE Occurrences(Head(ms).content, ToolPromptMark) + PromptCount(Tail(ms))

\* the request declares at least one named function tool
DeclaresTool == req.valid /\ KnownTools(req.tools) # {}

\* C22: on the local route, when the request declares at least one named
\* function tool, the messages sent on contain the tool-calling instruction
\* exactly once: at the end of the first system/developer message when there
\* is one, whatever the form of its content (plain text or a list of parts),
\* and otherwise in a new system message placed first, also when the request
\* has no messages.
C22_ToolPromptOnce ==
  (out.route = "local" /\ DeclaresTool) =>
    LET system == {k \in 1..Len(req.messages) : IsSystem(req.messages[k])}
        first == {k \in 1..Len(out.messages) : IsSystem(out.messages[k])}
    IN  /\ PromptCount(out.messages) = 1
        /\ first # {}
        /\ Occurrences(out.messages[Min(first)].content, ToolPromptMark) = 1
        /\ IF system = {}
             THEN Min(first) = 1 /\ out.messages[1].id = 0
             ELSE out.messages[Min(first)].id = Min(system)

-----------------------------------------------------------------------------
(* C23: the order of the messages *)

\* C23: in the list sent to the backend the messages that come from the
\* request stand in the relative order they have in the request, also when a
\* system/developer message stands after a conversation turn in the history.
C23_OrderPreserved ==
  (out.route = "local") =>
    \A j, k \in 1..Len(SentOn) : j < k => SentOn[j].id < SentOn[k].id

-----------------------------------------------------------------------------
(* C24: the web search results in the list of messages *)

\* the places of the outbound list that hold search results
SearchPlaces == {k \in 1..Len(out.messages) : out.messages[k].content = <<"SEARCH_RESULTS">>}

\* the outbound list without place i
WithoutPlace(i) == SubSeq(out.messages, 1, i - 1) \o SubSeq(out.messages, i + 1, Len(out.messages))

\* the search is triggered by the last user message of the normalised list
SearchTriggered ==
  LET t == LastUserText(LocalMessages(req))
  IN  t # None /\ t # <<>> /\ needs_web_search(t)

\* C24: on the local route a search that returned results adds exactly one
\* system message, directly before the last user message, and every other
\* message of the normalised list keeps its content and its place in the
\* order; without a triggered search, or without results, the list that is
\* sent is the normalised list.
C24_SearchAddsOneMessage ==
  (out.route = "local") =>
    /\ Cardinality(SearchPlaces) <= 1
    /\ SearchPlaces = {} => out.messages = LocalMessages(req)
    /\ ~SearchTriggered => SearchPlaces = {}
    /\ \A i \in SearchPlaces :
         /\ out.messages[i].role = "system"
         /\ i < Len(out.messages) /\ out.messages[i + 1].role = "user"
         /\ \A k \in (i + 2)..Len(out.messages) : out.messages[k].role # "user"
         /\ WithoutPlace(i) = LocalMessages(req)

\* results were put into a list where turns stand before and after the last
\* user message
C24_Witness ==
  /\ out.route = "local"
  /\ \E i \in SearchPlaces : i > 1 /\ i + 1 < Len(out.messages)

-----------------------------------------------------------------------------
(* C25: what a direct route leaves alone *)

\* message m as it stands after the stay-in-character instruction was put at
\* the end of its text
Overridden(m) == [m EXCEPT !.content = @ \o DIRECT_OVERRIDE]

\* C25: a request for a model of the direct-route table that no command rule
\* answers goes out with the messages of the request, all of them and in
\* their order, with no message of the proxy among them: a conversation turn
\* (a tool result too) is sent as it came and a system/developer message as it
\* came or with the instruction of the route at its end; tools is kept, and of
\* the parameters exactly the strip_params of the route are removed
\* (tool_choice stays).
C25_DirectRouteLeavesRequestAlone ==
  (out.route = "direct") =>
    /\ Len(out.messages) = Len(req.messages)
    /\ \A k \in 1..Len(req.messages) :
         \/ out.messages[k] = req.messages[k]
         \/ IsSystem(req.messages[k]) /\ out.messages[k] = Overridden(req.messages[k])
    /\ out.tools = req.tools
    /\ out.params = req.params \ DIRECT_ROUTES[req.model].strip_params
    /\ {"tools", "tool_choice"} \subseteq out.params

\* a direct-route request with tools, with more than MAX_HISTORY conversation
\* turns and a tool result among them
C25_Witness ==
  /\ out.route = "direct"
  /\ req.tools # <<>>
  /\ Len(SelectSeq(req.messages, IsOtherRole)) > MAX_HISTORY
  /\ \E k \in 1..Len(out.messages) : out.messages[k].role = "tool"

-----------------------------------------------------------------------------
(* C26: the stay-in-character instruction of the direct routes *)

\* how often the instruction stands in the system turns of the list ms
RECURSIVE OverrideCount(_)
OverrideCount(ms) ==
  IF ms = <<>> THEN 0
  ELSE (IF IsSystem(Head(ms)) THEN Occurrences(Head(ms).content, DIRECT_OVERRIDE) ELSE 0)
         + OverrideCount(Tail(ms))

\* C26: every request sent on a direct route carries the stay-in-character
\* instruction exactly once, in a system turn of the list that is sent, also
\* when the request has no system/developer message.
C26_DirectOverrideOnce ==
  (out.route = "direct") => OverrideCount(out.messages) = 1

-----------------------------------------------------------------------------
(* C27: what a backend id is replaced with *)

\* REVERSE_MAP[b]: the client id the reverse table holds for the backend id b
Counterpart(b) ==
  CASE b = "llama3.3:latest" -> "gpt-5.2"
    [] b = "qwen2.5-coder:32b" -> "gpt-5.1-codex"
    [] b = "phi4:latest" -> "gpt-5-mini"
    [] OTHER -> b

\* C27: in what the client receives, every backend id of the reverse table
\* that the backend wrote, in the model field or in the text, reads as the
\* client id of that backend id in the table ('gpt-5.2' for
\* 'llama3.3:latest'), whatever model the request asked for.
C27_RewriteToOwnCounterpart ==
  (pc = "done" /\ Answered /\ out.route = "local" /\ ans.body.kind = "completion") =>
    /\ DeliveredModels = {Counterpart(ans.body.model)}
    /\ (src = "backend" /\ ~IsNoReply(ans.body.content) /\ ans.body.content # None)
         => DeliveredContent = [k \in 1..Len(ans.body.content) |->
                                  Counterpart(ans.body.content[k])]

-----------------------------------------------------------------------------
(* C28: two requests at a time *)

\* the locals of the thread that runs
Running == Thread(3 - peer.tid, pc, req, ctx, out, calls, ans, resp, src)

\* what do_POST hands to _proxy or _direct_proxy for the request r
OwnContext(r) ==
  IF r.model \in DOMAIN DIRECT_ROUTES
    THEN Context(r.model, r.stream, <<>>, None)
    ELSE Context(r.model, r.stream, r.tools, LastUserText(LocalMessages(r)))

\* the response of the thread t is the one its own request and the answer of
\* the backend to it give
Determined(t) ==
  /\ t.pc \in {"recv", "wait_local", "wait_direct", "crashed"} => t.resp = NoResponse
  /\ (t.pc = "done" /\ t.ans # NoAnswer) =>
       t.resp = IF t.req.model \in DOMAIN DIRECT_ROUTES
                  THEN DirectResponse(t.ans, OwnContext(t.req))
                  ELSE ProxyResponse(t.ans, OwnContext(t.req))
  /\ (t.pc = "done" /\ t.ans = NoAnswer /\ t.out.route # "none") => t.resp = ProxyError
  /\ (t.pc = "done" /\ t.out.route = "none") =>
       /\ ForcedShortcut(t.req) # <<>>
       /\ t.resp.status = 200
       /\ t.resp.kind = (IF t.req.stream THEN "sse" ELSE "json")
       /\ IF t.req.stream
            THEN t.resp.events = ShortcutFrames(ForcedShortcut(t.req), t.req.model)
            ELSE t.resp.body.tool_calls = ForcedShortcut(t.req)

\* C28: with two requests handled at a time, in any interleaving of their
\* steps and whether or not one of them fails, the module-level tables (alias
\* table, reverse table, direct routes, unsupported parameters) stay as they
\* were loaded, and the response of each request is the one that its own
\* request and the backend's answer to it determine.
C28_NoSharedState ==
  /\ tables = Tables
  /\ Determined(Running)
  /\ Determined(peer)

\* two different requests are through: one was answered on the local route,
\* the other one failed
C28_Witness ==
  /\ peer.tid # 0
  /\ pc = "done" /\ ans # NoAnswer /\ resp.status = 200 /\ out.route = "local"
  /\ peer.req # req /\ peer.ctx # ctx
  /\ \/ peer.pc = "crashed"
     \/ peer.pc = "done" /\ peer.resp = ProxyError

-----------------------------------------------------------------------------
(* C29: the status of a backend error *)

\* the backend answered with an error status
BackendError == pc = "done" /\ Answered /\ ans.status >= 400

\* C29: when the backend answers with a status of 400 or more, the client
\* receives that status, as a unary and as a streaming client and on both
\* routes: the error is never delivered with the status 200.
C29_ErrorStatusKept ==
  BackendError => resp.status = ans.status

-----------------------------------------------------------------------------
(* C30: what the cleaned content keeps *)

\* the lines of the text t that are not blank, trimmed
TextLines(t) == SelectSeq(StrippedLines(SplitLines(t)), NotBlank)

\* C30: when convert_text_to_tool_calls returns ToolCalls, the cleaned content
\* is the text less the spans that gave a returned ToolCall and less outer
\* blanks: every line of the cleaned content is a line of the text, and a
\* marker line that gave no ToolCall because it names a tool absent from the
\* registry is still a line of the cleaned content.
C30_CleanedKeepsUnknownToolLines ==
  (pc = "converted" /\ converted.tool_calls # <<>>) =>
    LET kept == TextLines(converted.cleaned)
        given == TextLines(content)
    IN  /\ \A j \in 1..Len(kept) : \E k \in 1..Len(given) : given[k] = kept[j]
        /\ \A k \in 1..Len(UnknownToolLines) :
             IsMarkerLine(UnknownToolLines[k])
               => \E j \in 1..Len(kept) : kept[j] = Strip(UnknownToolLines[k])

=============================================================================
